---------------------------- MODULE Spec2Model ----------------------------
(***************************************************************************)
(* A model of pydantic_sweep: the nested-dictionary engine of _utils.py    *)
(* and the combinators, check_model, check_unique, the safe-union          *)
(* validator and initialize of _model.py.                                  *)
(*                                                                         *)
(* Python values are modelled as tagged pairs:                             *)
(*   <<"int", n>>            an integer leaf                               *)
(*   <<"DefaultValue", 0>>   the DefaultValue sentinel class               *)
(*   <<"ref", o>>            a reference to the model instance heap[o]     *)
(*   <<"dict", items>>       a dict; items is the sequence of <<key, v>>   *)
(*                           pairs in insertion order                      *)
(*   <<"list", elems>>       a list                                        *)
(* A model instance is heap[o] = [cls |-> class, attrs |-> <<name, v>>     *)
(* pairs in the order of model_fields].  A class is named by an id c (the   *)
(* class object); classes[c] gives its __name__, the text str(cls), the    *)
(* two entries of model_config that are read, and model_fields: a sequence *)
(* of [name, annotation, default, discriminator] (discriminator = 0 for    *)
(* none, else the index of the member a callable discriminator selects),   *)
(* and whether it derives from the BaseModel of this package (base).       *)
(* An annotation is <<"builtin", t>>,                                      *)
(* <<"class", c>>, <<"UnionType", members>> for X | Y (an instance of      *)
(* types.UnionType) or <<"typing.Union", members>> for typing.Union[X, Y]  *)
(* and typing.Optional[X] (not an instance of types.UnionType).            *)
(* A call that raises returns [exc |-> <exception class>], a call that     *)
(* returns normally [exc |-> "none", val |-> <value>].                     *)
(***************************************************************************)
EXTENDS Integers, Sequences, FiniteSets, TLC

VARIABLES
    pc,         \* position of the modelled caller
    arg,        \* the arguments of the call under study
    ret,        \* what the call returned or raised
    heap,       \* the model instances: heap[o] = [cls, attrs]
    classes,    \* the model classes that are defined: classes[c] = [name, ...]
    to_check,   \* check_model: the work list of (path, model)
    checked     \* check_model: the names of the classes already checked

vars == <<pc, arg, ret, heap, classes, to_check, checked>>

----------------------------------------------------------------------------
(* Bounds of the model *)

MaxDepth == 2       \* longest path / deepest nesting of a generated config
MaxItems == 3       \* longest (path, value) sequence given to from_items
MaxNodes == 3       \* most keys of a generated config, over all levels
MaxDicts == 2       \* most configs merged in one call
MaxLen == 2         \* longest list of values given to field
MaxInputs == 2      \* most config lists given to a combinator
MaxEntries == 4     \* most configs in the lists given to a combinator, in total

Keys == {"a", "b"}

----------------------------------------------------------------------------
(* Python values *)

PyInt(n) == <<"int", n>>
DefaultValue == <<"DefaultValue", 0>>
Ref(o) == <<"ref", o>>
Dict(its) == <<"dict", its>>
EmptyDict == Dict(<<>>)
List(elems) == <<"list", elems>>

(* str, tuple, set and frozenset values; the elements of a frozenset of   *)
(* pairs (key, value) are written <<key, value>>                           *)
Str(x) == <<"str", x>>
Tuple(elems) == <<"tuple", elems>>
Set(elems) == <<"set", elems>>
FrozenSet(elems) == <<"frozenset", elems>>

IsSet(v) == v[1] = "set"
IsDict(v) == v[1] = "dict"
IsRef(v) == v[1] = "ref"
IsList(v) == v[1] = "list"

Ok(v) == [exc |-> "none", val |-> v]
Raise(e) == [exc |-> e, val |-> <<>>]
None == [exc |-> "not_called", val |-> <<>>]
PyNone == <<"None", 0>>

Builtin(t) == <<"builtin", t>>
Class(c) == <<"class", c>>
UnionType(members) == <<"UnionType", members>>
TypingUnion(members) == <<"typing.Union", members>>
Required == <<"PydanticUndefined", 0>>

(* dict operations: key in d, d[key], d[key] = value, d.keys() *)
DictKeys(d) == {d[2][i][1] : i \in 1..Len(d[2])}
DictHas(d, key) == key \in DictKeys(d)
DictGet(d, key) == d[2][CHOOSE i \in 1..Len(d[2]) : d[2][i][1] = key][2]
DictSet(d, key, value) ==
    IF DictHas(d, key)
    THEN Dict([i \in 1..Len(d[2]) |->
                 IF d[2][i][1] = key THEN <<key, value>> ELSE d[2][i]])
    ELSE Dict(Append(d[2], <<key, value>>))

(* Python's == on nested dicts and leaves: key order does not matter *)
RECURSIVE PyEq(_, _)
PyEq(v, w) ==
    IF IsDict(v) /\ IsDict(w)
    THEN /\ DictKeys(v) = DictKeys(w)
         /\ \A k \in DictKeys(v) : PyEq(DictGet(v, k), DictGet(w, k))
    ELSE v = w

----------------------------------------------------------------------------
(* _utils.py: the nested-dictionary engine *)

(* Mutant: a leaf on the way to the final key is replaced by a dict.       *)
RECURSIVE from_items_insert_through_leaf(_, _, _)
from_items_insert_through_leaf(node, full_path, value) ==
    LET key == Head(full_path)
        rest == Tail(full_path)
    IN  IF rest = <<>>
        THEN IF DictHas(node, key)
             THEN Raise("ValueError")
             ELSE Ok(DictSet(node, key, value))
        ELSE LET child == IF DictHas(node, key) /\ IsDict(DictGet(node, key))
                          THEN DictGet(node, key)
                          ELSE EmptyDict
                 r == from_items_insert_through_leaf(child, rest, value)
             IN  IF r.exc = "none" THEN Ok(DictSet(node, key, r.val)) ELSE r

(* Mutant: a key supplied twice raises only when the two values differ.    *)
RECURSIVE from_items_insert_equal_ok(_, _, _)
from_items_insert_equal_ok(node, full_path, value) ==
    LET key == Head(full_path)
        rest == Tail(full_path)
    IN  IF rest = <<>>
        THEN IF DictHas(node, key) /\ DictGet(node, key) # value
             THEN Raise("ValueError")
             ELSE Ok(DictSet(node, key, value))
        ELSE LET child == IF DictHas(node, key) THEN DictGet(node, key)
                          ELSE EmptyDict
             IN  IF ~IsDict(child)
                 THEN Raise("ValueError")
                 ELSE LET r == from_items_insert_equal_ok(child, rest, value)
                      IN  IF r.exc = "none"
                          THEN Ok(DictSet(node, key, r.val))
                          ELSE r

(* One iteration of the loop of nested_dict_from_items: descend along the  *)
(* path, creating missing dicts, and set the final key.                    *)
RECURSIVE from_items_insert(_, _, _)
from_items_insert(node, full_path, value) ==
    LET key == Head(full_path)
        rest == Tail(full_path)
    IN  IF rest = <<>>
        THEN IF DictHas(node, key)
             THEN Raise("ValueError")
             ELSE Ok(DictSet(node, key, value))
        ELSE LET child == IF DictHas(node, key) THEN DictGet(node, key)
                          ELSE EmptyDict
             IN  IF ~IsDict(child)
                 THEN Raise("ValueError")
                 ELSE LET r == from_items_insert(child, rest, value)
                      IN  IF r.exc = "none"
                          THEN Ok(DictSet(node, key, r.val))
                          ELSE r

RECURSIVE from_items_loop(_, _)
from_items_loop(result, items) ==
    IF items = <<>> THEN Ok(result)
    ELSE IF Head(items)[1] = <<>>
         THEN Raise("ValueError")   \* *path, key = () cannot unpack
         ELSE LET r == from_items_insert(result, Head(items)[1], Head(items)[2])
              IN  IF r.exc = "none"
                  THEN from_items_loop(r.val, Tail(items))
                  ELSE r

nested_dict_from_items(items) == from_items_loop(EmptyDict, items)

(* Mutant: the yielded path omits the keys of the enclosing dicts.         *)
RECURSIVE nested_dict_items_no_prefix(_, _)
nested_dict_items_no_prefix(d, path) ==
    IF d[2] = <<>> THEN <<>>
    ELSE LET subkey == Head(d[2])[1]
             value == Head(d[2])[2]
         IN  (IF IsDict(value)
              THEN nested_dict_items_no_prefix(value, <<subkey>>)
              ELSE << <<(<<subkey>>), value>> >>)
             \o nested_dict_items_no_prefix(Dict(Tail(d[2])), path)

RECURSIVE nested_dict_items_rec(_, _)
nested_dict_items_rec(d, path) ==
    IF d[2] = <<>> THEN <<>>
    ELSE LET subkey == Head(d[2])[1]
             value == Head(d[2])[2]
             cur_path == Append(path, subkey)
         IN  (IF IsDict(value)
              THEN nested_dict_items_rec(value, cur_path)
              ELSE << <<cur_path, value>> >>)
             \o nested_dict_items_rec(Dict(Tail(d[2])), path)

nested_dict_items(d) == nested_dict_items_rec(d, <<>>)

----------------------------------------------------------------------------
(* Generated inputs *)

SeqsUpTo(S, n) == UNION {[1..k -> S] : k \in 0..n}

(* The paths of the generated (path, value) pairs: equal paths, strict     *)
(* prefixes one and two levels up, and unrelated paths                     *)
Paths == {<<"a">>, <<"b">>, <<"a", "a">>, <<"a", "b">>, <<"a", "b", "a">>}
LeafValues == {PyInt(1), PyInt(2)}
ItemSeqs == SeqsUpTo(Paths \X LeafValues, MaxItems)
(* Number of keys of a config, over all nesting levels *)
RECURSIVE Size(_)
Size(v) ==
    IF ~IsDict(v) \/ v[2] = <<>> THEN 0
    ELSE 1 + Size(Head(v[2])[2]) + Size(Dict(Tail(v[2])))

KeySeqs == {ks \in SeqsUpTo(Keys, Cardinality(Keys)) :
              \A i, j \in 1..Len(ks) : i # j => ks[i] # ks[j]}

(* Every config (nested dict) nested at most depth levels with at most     *)
(* nodes keys, in every key order, empty sub-dicts included; EntriesOf     *)
(* are the item sequences of such a config with the keys ks in that order. *)
RECURSIVE ConfigsOfSize(_, _), EntriesOf(_, _, _)
ConfigsOfSize(depth, nodes) ==
    IF depth = 0 \/ nodes = 0 THEN {EmptyDict}
    ELSE UNION {{Dict(es) : es \in EntriesOf(ks, depth, nodes)} : ks \in KeySeqs}

EntriesOf(ks, depth, nodes) ==
    IF ks = <<>> THEN {<<>>}
    ELSE IF nodes = 0 THEN {}
    ELSE UNION {{<< <<Head(ks), v>> >> \o es :
                    es \in EntriesOf(Tail(ks), depth, nodes - 1 - Size(v))} :
                v \in LeafValues \cup ConfigsOfSize(depth - 1, nodes - 1)}

ConfigsBySize == [n \in 0..MaxNodes |-> ConfigsOfSize(MaxDepth, n)]
Configs == ConfigsBySize[MaxNodes]

(* Tuples of at most k configs with at most n keys in total (an empty      *)
(* config counts as one), as handed to merge_nested_dicts                  *)
RECURSIVE ConfigTuplesOf(_, _)
ConfigTuplesOf(k, n) ==
    IF k = 0 \/ n = 0 THEN {<<>>}
    ELSE {<<>>} \cup
         UNION {{<<c>> \o t :
                    t \in ConfigTuplesOf(k - 1,
                                         n - (IF Size(c) = 0 THEN 1 ELSE Size(c)))} :
                c \in ConfigsBySize[n]}

ConfigTuples == ConfigTuplesOf(MaxDicts, MaxNodes) \ {<<>>}

----------------------------------------------------------------------------
(* _utils.py: merge_nested_dicts *)

RECURSIVE ChainItems(_)
ChainItems(dicts) ==
    IF dicts = <<>> THEN <<>>
    ELSE nested_dict_items(Head(dicts)) \o ChainItems(Tail(dicts))

(* Mutant: a key that is set already keeps its value. *)
RECURSIVE overwrite_insert_first_wins(_, _, _)
overwrite_insert_first_wins(node, path, value) ==
    LET p == Head(path)
        rest == Tail(path)
    IN  IF rest = <<>>
        THEN IF DictHas(node, p) THEN node ELSE DictSet(node, p, value)
        ELSE LET child == IF ~DictHas(node, p) \/ ~IsDict(DictGet(node, p))
                          THEN EmptyDict
                          ELSE DictGet(node, p)
             IN  DictSet(node, p, overwrite_insert_first_wins(child, rest, value))

(* One assignment of the overwrite loop: intermediate nodes that are       *)
(* missing or are not dicts are replaced by a fresh dict.                  *)
RECURSIVE overwrite_insert(_, _, _)
overwrite_insert(node, path, value) ==
    LET p == Head(path)
        rest == Tail(path)
    IN  IF rest = <<>> THEN DictSet(node, p, value)
        ELSE LET child == IF ~DictHas(node, p) \/ ~IsDict(DictGet(node, p))
                          THEN EmptyDict
                          ELSE DictGet(node, p)
             IN  DictSet(node, p, overwrite_insert(child, rest, value))

RECURSIVE overwrite_loop(_, _)
overwrite_loop(res, items) ==
    IF items = <<>> THEN res
    ELSE overwrite_loop(overwrite_insert(res, Head(items)[1], Head(items)[2]),
                        Tail(items))

merge_nested_dicts(dicts, overwrite) ==
    IF ~overwrite
    THEN nested_dict_from_items(ChainItems(dicts))
    ELSE Ok(overwrite_loop(EmptyDict, ChainItems(dicts)))

----------------------------------------------------------------------------
(* SpecNested: calls of the nested-dictionary functions on generated input *)

NestedArgs ==
    {[fn |-> "nested_dict_from_items", items |-> s, dicts |-> <<>>] :
        s \in ItemSeqs}
    \cup
    {[fn |-> "nested_dict_items", items |-> <<>>, dicts |-> <<c>>] :
        c \in Configs}
    \cup
    {[fn |-> "merge_nested_dicts", items |-> <<>>, dicts |-> t] :
        t \in ConfigTuples}

InitNested ==
    /\ pc = "call" /\ arg \in NestedArgs /\ ret = None /\ heap = <<>> /\ classes = <<>>
    /\ to_check = <<>> /\ checked = {}

(* nested_dict_from_items, on the given items or on the items that         *)
(* nested_dict_items just returned                                         *)
CallFromItems ==
    /\ \/ /\ pc = "call" /\ arg.fn = "nested_dict_from_items"
          /\ ret' = nested_dict_from_items(arg.items)
       \/ /\ pc = "items"
          /\ ret' = nested_dict_from_items(ret.val)
    /\ pc' = "done"
    /\ UNCHANGED <<arg, heap, classes, to_check, checked>>

CallItems ==
    /\ pc = "call" /\ arg.fn = "nested_dict_items"
    /\ ret' = Ok(nested_dict_items(arg.dicts[1]))
    /\ pc' = "items"
    /\ UNCHANGED <<arg, heap, classes, to_check, checked>>

CallMerge ==
    /\ pc = "call" /\ arg.fn = "merge_nested_dicts"
    /\ ret' = merge_nested_dicts(arg.dicts, FALSE)
    /\ pc' = "done"
    /\ UNCHANGED <<arg, heap, classes, to_check, checked>>

NextNested == CallFromItems \/ CallItems \/ CallMerge

SpecNested == InitNested /\ [][NextNested]_vars

----------------------------------------------------------------------------
(* SpecMerge: merge_nested_dicts on up to three configs of at most two     *)
(* keys each, without and with overwrite                                   *)

MergeConfigs == ConfigsBySize[2]

InitMerge ==
    /\ pc = "call" /\ ret = None /\ heap = <<>> /\ classes = <<>>
    /\ to_check = <<>> /\ checked = {}
    /\ \E dicts \in SeqsUpTo(MergeConfigs, 3) : \E overwrite \in BOOLEAN :
          arg = [fn |-> "merge_nested_dicts", dicts |-> dicts, overwrite |-> overwrite]

CallMergeDicts ==
    /\ pc = "call" /\ arg.fn = "merge_nested_dicts"
    /\ ret' = merge_nested_dicts(arg.dicts, arg.overwrite)
    /\ pc' = "done"
    /\ UNCHANGED <<arg, heap, classes, to_check, checked>>

NextMerge == CallMergeDicts

SpecMerge == InitMerge /\ [][NextMerge]_vars

----------------------------------------------------------------------------
(* _model.py: field and the combinators *)

nested_dict_at(path, value) == nested_dict_from_items(<< <<path, value>> >>)

(* field(path, values): one single-leaf config per value.  The paths of    *)
(* the model are tuples of valid keys and its leaf values are hashable or  *)
(* model instances, so the two checks of field pass; the empty path cannot *)
(* be unpacked by nested_dict_from_items.                                  *)
field(path, values) ==
    IF path = <<>> THEN Raise("ValueError")
    ELSE Ok([i \in 1..Len(values) |-> nested_dict_at(path, values[i]).val])

(* Mutant: the loops of the product are nested the other way round, so     *)
(* the leftmost input varies fastest.                                      *)
RECURSIVE itertools_product_leftmost_fastest(_)
itertools_product_leftmost_fastest(pools) ==
    IF pools = <<>> THEN << <<>> >>
    ELSE LET result == itertools_product_leftmost_fastest(
                           SubSeq(pools, 1, Len(pools) - 1))
             pool == pools[Len(pools)]
         IN  [n \in 1..(Len(result) * Len(pool)) |->
                Append(result[((n - 1) % Len(result)) + 1],
                       pool[((n - 1) \div Len(result)) + 1])]

(* itertools.product over the pools: result = [[]]; for each pool in turn          *)
(* result = [x + [y] for x in result for y in pool]                        *)
RECURSIVE itertools_product(_)
itertools_product(pools) ==
    IF pools = <<>> THEN << <<>> >>
    ELSE LET result == itertools_product(SubSeq(pools, 1, Len(pools) - 1))
             pool == pools[Len(pools)]
         IN  [n \in 1..(Len(result) * Len(pool)) |->
                Append(result[((n - 1) \div Len(pool)) + 1],
                       pool[((n - 1) % Len(pool)) + 1])]

(* [merge_nested_dicts of combo, for combo in combos]: the first merge that *)
(* raises ends the comprehension                                           *)
RECURSIVE merge_each(_)
merge_each(combos) ==
    IF combos = <<>> THEN Ok(<<>>)
    ELSE LET m == merge_nested_dicts(Head(combos), FALSE)
         IN  IF m.exc # "none" THEN m
             ELSE LET r == merge_each(Tail(combos))
                  IN  IF r.exc # "none" THEN r ELSE Ok(<<m.val>> \o r.val)

(* the least length of the inputs (0 when there is no input) *)
RECURSIVE MinLen(_)
MinLen(configs) ==
    IF configs = <<>> THEN 0
    ELSE IF Len(configs) = 1 THEN Len(configs[1])
    ELSE LET m == MinLen(Tail(configs))
         IN  IF Len(configs[1]) < m THEN Len(configs[1]) ELSE m

(* Mutant: zip without strict=True stops at the shortest input. *)
zip_shortest(configs) ==
    [exc |-> "none",
     val |-> [n \in 1..MinLen(configs) |->
                [i \in 1..Len(configs) |-> configs[i][n]]]]

(* zip of the inputs with strict=True: the tuples of the positions every   *)
(* input has, and then ValueError when some input is longer than another.  *)
(* The tuples come one at a time: val is what was yielded before exc.      *)
zip_strict(configs) ==
    [exc |-> IF \A i \in 1..Len(configs) : Len(configs[i]) = MinLen(configs)
             THEN "none" ELSE "ValueError",
     val |-> [n \in 1..MinLen(configs) |->
                [i \in 1..Len(configs) |-> configs[i][n]]]]

combiner_apply(combiner, configs) ==
    CASE combiner = "itertools.product" -> Ok(itertools_product(configs))
      [] combiner = "safe_zip" -> zip_strict(configs)

(* Mutant: the inputs are chained from the last to the first. *)
RECURSIVE itertools_chain_reversed(_)
itertools_chain_reversed(configs) ==
    IF configs = <<>> THEN <<>>
    ELSE itertools_chain_reversed(Tail(configs)) \o Head(configs)

(* itertools.chain of the inputs *)
RECURSIVE itertools_chain(_)
itertools_chain(configs) ==
    IF configs = <<>> THEN <<>>
    ELSE Head(configs) \o itertools_chain(Tail(configs))

(* Mutant: the round robin ends with the first input that is exhausted. *)
RECURSIVE roundrobin_until_shortest(_)
roundrobin_until_shortest(configs) ==
    IF configs = <<>> \/ \E i \in 1..Len(configs) : configs[i] = <<>> THEN <<>>
    ELSE [i \in 1..Len(configs) |-> Head(configs[i])]
         \o roundrobin_until_shortest([i \in 1..Len(configs) |-> Tail(configs[i])])

(* more_itertools.roundrobin of the inputs: one element of each input that is  *)
(* not exhausted, in the order of the arguments, again and again           *)
RECURSIVE roundrobin(_)
roundrobin(configs) ==
    LET active == SelectSeq(configs, LAMBDA c : c # <<>>)
    IN  IF active = <<>> THEN <<>>
        ELSE [i \in 1..Len(active) |-> Head(active[i])]
             \o roundrobin([i \in 1..Len(active) |-> Tail(active[i])])

chainer_apply(chainer, configs) ==
    CASE chainer = "itertools.chain" -> itertools_chain(configs)
      [] chainer = "more_itertools.roundrobin" -> roundrobin(configs)

(* Mutant: the chained list is returned without a look at its elements. *)
chained_unchecked(res) == Ok(res)

(* res = list(chainer of the inputs); if not isinstance(res[0], dict): raise   *)
(* ValueError; return res.  res[0] of the empty list raises IndexError.    *)
chained(res) ==
    IF res = <<>> THEN Raise("IndexError")
    ELSE IF ~IsDict(res[1]) THEN Raise("ValueError")
    ELSE Ok(res)

(* the list comprehension over the combos: the merges of the tuples that   *)
(* the combiner yields happen before the combiner raises                   *)
combined(combos, merged) ==
    IF merged.exc # "none" THEN merged
    ELSE IF combos.exc # "none" THEN [exc |-> combos.exc, val |-> "zip"]
    ELSE merged

merge_combos(combos) == combined(combos, merge_each(combos.val))

config_combine(configs, combiner, chainer) ==
    IF combiner # "None"
    THEN IF chainer # "None" THEN Raise("ValueError")
         ELSE merge_combos(combiner_apply(combiner, configs))
    ELSE IF chainer # "None" THEN chained(chainer_apply(chainer, configs))
    ELSE Raise("ValueError")

config_product(configs) == config_combine(configs, "itertools.product", "None")

config_zip(configs) == config_combine(configs, "safe_zip", "None")

config_chain(configs) == config_combine(configs, "None", "itertools.chain")

config_roundrobin(configs) ==
    config_combine(configs, "None", "more_itertools.roundrobin")

----------------------------------------------------------------------------
(* SpecCombine: calls of the combinators on generated config lists *)

(* the lists field() returns for a path and up to MaxLen values: paths     *)
(* that collide (a with a.a and a.b) and three that are pairwise disjoint  *)
CombinePaths == {<<"a">>, <<"b">>, <<"a", "a">>, <<"a", "b">>}
FieldLists ==
    {field(p, vs).val : p \in CombinePaths, vs \in SeqsUpTo(LeafValues, MaxLen)}

RECURSIVE TotalLen(_)
TotalLen(configs) ==
    IF configs = <<>> THEN 0 ELSE Len(Head(configs)) + TotalLen(Tail(configs))

InitCombine ==
    /\ pc = "call" /\ ret = None /\ heap = <<>> /\ classes = <<>>
    /\ to_check = <<>> /\ checked = {}
    /\ \E n \in 0..MaxInputs : \E cs \in [1..n -> FieldLists] :
          /\ TotalLen(cs) <= MaxEntries
          /\ arg = [fn |-> "config_product", configs |-> cs]

CallProduct ==
    /\ pc = "call" /\ arg.fn = "config_product"
    /\ ret' = config_product(arg.configs)
    /\ pc' = "done"
    /\ UNCHANGED <<arg, heap, classes, to_check, checked>>

NextCombine == CallProduct

SpecCombine == InitCombine /\ [][NextCombine]_vars

----------------------------------------------------------------------------
(* SpecChain: calls of config_zip, config_chain, config_roundrobin and of  *)
(* config_combine with a combiner or a chainer                             *)

(* the lists field() returns for paths that collide (a with a.b) or not    *)
(* and up to MaxLen values                                                 *)
ChainPaths == {<<"a">>, <<"b">>, <<"a", "b">>}
ChainValues == {PyInt(1), PyInt(2)}
ChainLists ==
    {field(p, vs).val : p \in ChainPaths, vs \in SeqsUpTo(ChainValues, MaxLen)}

(* lists whose elements need not be configs, as a chainer can yield them *)
RawElements == {Dict(<< <<"a", PyInt(1)>> >>), Dict(<< <<"b", PyInt(1)>> >>), PyInt(1)}
RawLists == SeqsUpTo(RawElements, MaxLen)

InitChain ==
    /\ pc = "call" /\ ret = None /\ heap = <<>> /\ classes = <<>>
    /\ to_check = <<>> /\ checked = {}
    /\ \E n \in 0..MaxInputs :
          \/ \E cs \in [1..n -> ChainLists] :
             \E fn \in {"config_zip", "config_chain", "config_roundrobin"} :
                /\ TotalLen(cs) <= MaxEntries
                /\ arg = [fn |-> fn, configs |-> cs]
          \/ \E cs \in [1..n -> RawLists] :
             \E chainer \in {"None", "itertools.chain", "more_itertools.roundrobin"} :
             \E combiner \in {"None", "safe_zip"} :
                /\ TotalLen(cs) <= MaxEntries
                /\ combiner = "None" \/ chainer # "None"
                /\ arg = [fn |-> "config_combine", configs |-> cs,
                          combiner |-> combiner, chainer |-> chainer]

CallZip ==
    /\ pc = "call" /\ arg.fn = "config_zip"
    /\ ret' = config_zip(arg.configs)
    /\ pc' = "done"
    /\ UNCHANGED <<arg, heap, classes, to_check, checked>>

CallChain ==
    /\ pc = "call" /\ arg.fn = "config_chain"
    /\ ret' = config_chain(arg.configs)
    /\ pc' = "done"
    /\ UNCHANGED <<arg, heap, classes, to_check, checked>>

CallRoundrobin ==
    /\ pc = "call" /\ arg.fn = "config_roundrobin"
    /\ ret' = config_roundrobin(arg.configs)
    /\ pc' = "done"
    /\ UNCHANGED <<arg, heap, classes, to_check, checked>>

CallCombine ==
    /\ pc = "call" /\ arg.fn = "config_combine"
    /\ ret' = config_combine(arg.configs, arg.combiner, arg.chainer)
    /\ pc' = "done"
    /\ UNCHANGED <<arg, heap, classes, to_check, checked>>

NextChain == CallZip \/ CallChain \/ CallRoundrobin \/ CallCombine

SpecChain == InitChain /\ [][NextChain]_vars

----------------------------------------------------------------------------
(* _utils.py: as_hashable, and _model.py: check_unique *)

(* The projection of as_hashable.  A hashable item (an int, DefaultValue)  *)
(* is returned as it is; a model instance (instances of the model are not  *)
(* frozen, hence not hashable) gives the string                            *)
(* "pydantic:<class>:<model_dump>", modelled by the class and the dump it  *)
(* is formatted from; a dict gives the frozenset of its (key, projection)  *)
(* pairs.                                                                  *)
RECURSIVE as_hashable(_, _, _), model_dump(_, _, _)
as_hashable(item, h, cl) ==
    CASE IsRef(item) ->
            <<"str", <<"pydantic", cl[h[item[2]].cls].str,
                       model_dump(h[item[2]].attrs, h, cl)>> >>
      [] IsDict(item) ->
            <<"frozenset", {<<item[2][i][1], as_hashable(item[2][i][2], h, cl)>> :
                               i \in 1..Len(item[2])}>>
      [] IsSet(item) -> FrozenSet(item[2])
      [] IsList(item) -> Tuple(<<Str("__list_type"), Tuple(item[2])>>)
      [] OTHER -> item

model_dump(attrs, h, cl) ==
    [i \in 1..Len(attrs) |-> <<attrs[i][1], as_hashable(attrs[i][2], h, cl)>>]

(* hash() of a projection.  hash(n) = n for a small int except             *)
(* hash(-1) = -2; the hash of a tuple is a function of the hashes of its   *)
(* elements in order, the hash of a frozenset of the multiset of the       *)
(* hashes of its elements.  Hashes of strings and of objects hashed by     *)
(* identity are taken to be collision free.                                *)
ValueTags ==
    {"int", "str", "tuple", "frozenset", "None", "DefaultValue", "list", "dict",
     "set", "ref"}

RECURSIVE hash(_), hash_element(_)
hash(x) ==
    CASE x[1] = "int" -> <<"int", IF x[2] = -1 THEN -2 ELSE x[2]>>
      [] x[1] = "frozenset" ->
            LET hs == {hash_element(e) : e \in x[2]}
            IN  <<"frozenset",
                  [v \in hs |-> Cardinality({e \in x[2] : hash_element(e) = v})]>>
      [] OTHER -> x

(* an element of a frozenset is a value (the frozenset of a set) or a      *)
(* (key, projection) pair (the frozenset of a dict)                        *)
hash_element(e) ==
    IF e[1] \in ValueTags THEN hash(e) ELSE <<e[1], hash(e[2])>>

(* the stream check_unique iterates over: a model instance or a dict       *)
(* passed directly counts as a list of one                                 *)
RECURSIVE flatten_models(_)
flatten_models(models_) ==
    IF models_ = <<>> THEN <<>>
    ELSE (IF IsList(Head(models_)) THEN Head(models_)[2] ELSE <<Head(models_)>>)
         \o flatten_models(Tail(models_))

RECURSIVE check_unique_loop(_, _, _, _, _)
check_unique_loop(seen, stream, raise_exception, h, cl) ==
    IF stream = <<>> THEN Ok(TRUE)
    ELSE LET model_hash == hash(as_hashable(Head(stream), h, cl))
         IN  IF model_hash \in seen
             THEN IF raise_exception THEN Raise("ValueError") ELSE Ok(FALSE)
             ELSE check_unique_loop(seen \cup {model_hash}, Tail(stream),
                                    raise_exception, h, cl)

check_unique(models_, raise_exception, h, cl) ==
    check_unique_loop({}, flatten_models(models_), raise_exception, h, cl)

----------------------------------------------------------------------------
(* SpecUnique: calls of check_unique *)

(* Two equal instances of Sub at different addresses and a third that      *)
(* differs from them                                                       *)
UniqueClasses ==
    [Sub |-> [name |-> "Sub", str |-> "Sub", base |-> "BaseModel",
              extra |-> "forbid", arbitrary_types_allowed |-> FALSE,
              fields |-> << [name |-> "x", annotation |-> Builtin("int"),
                             default |-> PyInt(5), discriminator |-> 0] >>]]

UniqueHeap ==
    << [cls |-> "Sub", attrs |-> << <<"x", PyInt(5)>> >>],
       [cls |-> "Sub", attrs |-> << <<"x", PyInt(5)>> >>],
       [cls |-> "Sub", attrs |-> << <<"x", PyInt(-1)>> >>] >>

UniqueElements ==
    {Dict(<< <<"a", PyInt(n)>> >>) : n \in {-2, -1, 1}}
    \cup {Ref(o) : o \in 1..Len(UniqueHeap)}

UniqueCollections ==
    UniqueElements \cup {List(l) : l \in SeqsUpTo(UniqueElements, MaxLen)}

InitUnique ==
    /\ pc = "call" /\ ret = None /\ heap = UniqueHeap /\ classes = UniqueClasses
    /\ to_check = <<>> /\ checked = {}
    /\ \E n \in 1..MaxInputs : \E ms \in [1..n -> UniqueCollections] :
       \E raise_exception \in BOOLEAN :
          /\ Len(flatten_models(ms)) <= MaxEntries
          /\ arg = [fn |-> "check_unique", models_ |-> ms,
                    raise_exception |-> raise_exception]

CallCheckUnique ==
    /\ pc = "call" /\ arg.fn = "check_unique"
    /\ ret' = check_unique(arg.models_, arg.raise_exception, heap, classes)
    /\ pc' = "done"
    /\ UNCHANGED <<arg, heap, classes, to_check, checked>>

NextUnique == CallCheckUnique

SpecUnique == InitUnique /\ [][NextUnique]_vars

----------------------------------------------------------------------------
(* SpecHashable: as_hashable applied to two items                          *)

(* Model1 and Model2 are classes with the one field x; Model1_again is a   *)
(* class made by a second run of the class statement of Model1, with the   *)
(* same module, name and qualified name, so that str() of both is the same *)
HashClass(name) ==
    [name |-> name, str |-> "<class 'm." \o name \o "'>", base |-> "BaseModel",
     extra |-> "forbid", arbitrary_types_allowed |-> FALSE,
     fields |-> << [name |-> "x", annotation |-> Builtin("int"),
                    default |-> Required, discriminator |-> 0] >>]

HashClasses ==
    [Model1 |-> HashClass("Model1"), Model2 |-> HashClass("Model2"),
     Model1_again |-> HashClass("Model1")]

HashHeap ==
    << [cls |-> "Model1", attrs |-> << <<"x", PyInt(1)>> >>],
       [cls |-> "Model2", attrs |-> << <<"x", PyInt(1)>> >>],
       [cls |-> "Model1_again", attrs |-> << <<"x", PyInt(1)>> >>],
       [cls |-> "Model1", attrs |-> << <<"x", PyInt(2)>> >>] >>

(* element sequences, and the leaf values: ints, a str, tuples, lists,     *)
(* sets, frozensets of pairs and instances                                 *)
HashSeqs == SeqsUpTo({PyInt(1), PyInt(2)}, MaxLen)
HashLeaves ==
    {PyInt(1), PyInt(2), Str("__list_type"), Set({PyInt(1)}), FrozenSet({PyInt(1)})}
    \cup {Tuple(es) : es \in HashSeqs}
    \cup {List(es) : es \in HashSeqs}
    \cup {Tuple(<<Str("__list_type"), Tuple(es)>>) : es \in HashSeqs}
    \cup {FrozenSet({<<"b", v>>}) : v \in {PyInt(1), PyInt(2)}}
    \cup {Set({<<"a", PyInt(1)>>}), FrozenSet({<<"a", PyInt(1)>>})}
    \cup {Ref(o) : o \in 1..Len(HashHeap)}

(* dicts of one or two keys in either order of insertion, with leaves and  *)
(* nested dicts as values                                                  *)
HashDictValues ==
    {PyInt(1), PyInt(2), List(<<PyInt(1)>>),
     Tuple(<<Str("__list_type"), Tuple(<<PyInt(1)>>)>>),
     FrozenSet({<<"b", PyInt(1)>>}), Ref(1),
     Dict(<< <<"x", PyInt(1)>> >>),
     Dict(<< <<"b", PyInt(1)>> >>),
     Dict(<< <<"b", PyInt(1)>>, <<"c", PyInt(2)>> >>),
     Dict(<< <<"c", PyInt(2)>>, <<"b", PyInt(1)>> >>)}
HashDicts ==
    {Dict(<< <<k, v>> >>) : k \in {"a", "x"}, v \in HashDictValues}
    \cup {Dict(<< <<ks[1], v>>, <<ks[2], w>> >>) :
             ks \in {<<"a", "b">>, <<"b", "a">>},
             v \in HashDictValues, w \in HashDictValues}

InitHashable ==
    /\ pc = "call" /\ ret = None /\ heap = HashHeap /\ classes = HashClasses
    /\ to_check = <<>> /\ checked = {}
    /\ \/ \E a, b \in HashDicts : arg = [fn |-> "as_hashable", items |-> <<a, b>>]
       \/ \E a \in HashLeaves : \E b \in HashLeaves \cup HashDicts :
             arg = [fn |-> "as_hashable", items |-> <<a, b>>]

CallAsHashable ==
    /\ pc = "call" /\ arg.fn = "as_hashable"
    /\ ret' = Ok([i \in 1..Len(arg.items) |-> as_hashable(arg.items[i], heap, classes)])
    /\ pc' = "done"
    /\ UNCHANGED <<arg, heap, classes, to_check, checked>>

NextHashable == CallAsHashable

SpecHashable == InitHashable /\ [][NextHashable]_vars

----------------------------------------------------------------------------
(* SpecProject: model_hash = hash(as_hashable(model)) of check_unique, the *)
(* call of as_hashable and the call of hash as two steps                   *)

(* hash(x) returns: a list, a dict, a set and an instance of a model that  *)
(* is not frozen have no hash, a tuple has one when each of its elements   *)
(* has one, every other value has one                                      *)
RECURSIVE is_hashable(_)
is_hashable(x) ==
    CASE x[1] \in {"list", "dict", "set", "ref"} -> FALSE
      [] x[1] = "tuple" -> \A i \in 1..Len(x[2]) : is_hashable(x[2][i])
      [] OTHER -> TRUE

(* as_hashable raises TypeError: frozenset() of the pairs of a dict hashes *)
(* each (key, projection) pair, and the projection of a field or a value   *)
(* is computed by the recursive call                                       *)
RECURSIVE as_hashable_raises(_, _, _)
as_hashable_raises(item, h, cl) ==
    CASE IsRef(item) ->
            \E i \in 1..Len(h[item[2]].attrs) :
                as_hashable_raises(h[item[2]].attrs[i][2], h, cl)
      [] IsDict(item) ->
            \E i \in 1..Len(item[2]) :
                \/ as_hashable_raises(item[2][i][2], h, cl)
                \/ ~is_hashable(as_hashable(item[2][i][2], h, cl))
      [] OTHER -> FALSE

(* elements of the collections: an int, a list, a set, a mapping, a tuple  *)
(* and an instance                                                         *)
ProjectElements ==
    {PyInt(1), List(<<PyInt(1)>>), Set({PyInt(1)}),
     Dict(<< <<"a", PyInt(1)>> >>), Tuple(<<PyInt(1)>>), Ref(1)}

ProjectSeqs == SeqsUpTo(ProjectElements, MaxLen)

(* a set holds hashable elements only *)
ProjectSets ==
    {Set(es) : es \in SUBSET {PyInt(1), PyInt(2), Tuple(<<PyInt(1)>>)}}

ProjectValues ==
    ProjectElements \cup ProjectSets
    \cup {List(es) : es \in ProjectSeqs} \cup {Tuple(es) : es \in ProjectSeqs}

ProjectItems ==
    ProjectValues
    \cup {Dict(<< <<"a", v>> >>) : v \in ProjectValues}
    \cup {Dict(<< <<"a", Dict(<< <<"b", v>> >>)>> >>) : v \in ProjectValues}

InitProject ==
    /\ pc = "call" /\ ret = None /\ heap = HashHeap /\ classes = HashClasses
    /\ to_check = <<>> /\ checked = {}
    /\ \E model \in ProjectItems : arg = [fn |-> "model_hash", model |-> model]

UniqueProject ==
    /\ pc = "call" /\ arg.fn = "model_hash"
    /\ IF as_hashable_raises(arg.model, heap, classes)
       THEN ret' = Raise("TypeError") /\ pc' = "done"
       ELSE ret' = Ok(as_hashable(arg.model, heap, classes)) /\ pc' = "projected"
    /\ UNCHANGED <<arg, heap, classes, to_check, checked>>

UniqueHash ==
    /\ pc = "projected"
    /\ ret' = IF is_hashable(ret.val) THEN Ok(hash(ret.val)) ELSE Raise("TypeError")
    /\ pc' = "done"
    /\ UNCHANGED <<arg, heap, classes, to_check, checked>>

NextProject == UniqueProject \/ UniqueHash

SpecProject == InitProject /\ [][NextProject]_vars

----------------------------------------------------------------------------
(* _model.py: check_model, one iteration of its while loop per step *)

(* the class a work-list entry stands for, when it is a model instance or  *)
(* a subclass of pydantic.BaseModel                                        *)
IsModel(model) == IsRef(model) \/ model[1] = "class"
ClassOf(model, h) == IF IsRef(model) THEN h[model[2]].cls ELSE model[2]

(* issubclass(model, Hashable) for the builtin types of the model *)
IsHashableType(model) == model[1] = "builtin" => model[2] # "list"

(* Mutant: validate_assignment is required as well. *)
check_model_config_validate(config) ==
    config.extra = "forbid" /\ ~config.arbitrary_types_allowed
    /\ config.validate_assignment

(* _check_model_config raises if extra is not 'forbid' or                  *)
(* arbitrary_types_allowed is set; it reads nothing else of model_config   *)
check_model_config_ok(config) ==
    config.extra = "forbid" /\ ~config.arbitrary_types_allowed

(* Mutant: no class counts as checked. *)
already_checked_never(name, names) == FALSE

(* if name in checked: continue *)
already_checked(name, names) == name \in names

(* the entries pushed for the fields of a class, in the order of           *)
(* model_fields; only an annotation that is a types.UnionType is split     *)
RECURSIVE fields_to_check(_, _)
fields_to_check(path, fields) ==
    IF fields = <<>> THEN <<>>
    ELSE LET info == Head(fields)
             annotation == info.annotation
             p == Append(path, info.name)
         IN  (IF annotation[1] = "UnionType"
              THEN [i \in 1..Len(annotation[2]) |-> <<p, annotation[2][i]>>]
              ELSE << <<p, annotation>> >>)
             \o fields_to_check(path, Tail(fields))

CallCheckModel ==
    /\ pc = "call" /\ arg.fn = "check_model"
    /\ to_check' = << <<(<<>>), arg.model>> >>
    /\ checked' = {}
    /\ pc' = "check_model"
    /\ UNCHANGED <<arg, ret, heap, classes>>

CheckModelStep ==
    /\ pc = "check_model" /\ to_check # <<>>
    /\ LET path == to_check[Len(to_check)][1]
           model == to_check[Len(to_check)][2]
           rest == SubSeq(to_check, 1, Len(to_check) - 1)
       IN  IF ~IsModel(model)
           THEN \* just a leaf node
                IF ~IsHashableType(model) /\ arg.unhashable = "raise"
                THEN /\ ret' = Raise("ValueError") /\ pc' = "done"
                     /\ to_check' = rest /\ UNCHANGED checked
                ELSE /\ to_check' = rest
                     /\ UNCHANGED <<pc, ret, checked>>
           ELSE LET cls == classes[ClassOf(model, heap)]
                IN  IF already_checked(cls.name, checked)
                    THEN /\ to_check' = rest
                         /\ UNCHANGED <<pc, ret, checked>>
                    ELSE IF ~check_model_config_ok(cls)
                    THEN /\ ret' = Raise("ValueError") /\ pc' = "done"
                         /\ to_check' = rest /\ UNCHANGED checked
                    ELSE /\ checked' = checked \cup {cls.name}
                         /\ to_check' = rest \o fields_to_check(path, cls.fields)
                         /\ UNCHANGED <<pc, ret>>
    /\ UNCHANGED <<arg, heap, classes>>

(* the loop ends: check_model returns None to its caller, or initialize,    *)
(* which called it first, goes on                                          *)
CheckModelReturn ==
    /\ pc = "check_model" /\ to_check = <<>>
    /\ IF arg.fn = "check_model"
       THEN ret' = Ok(PyNone) /\ pc' = "done"
       ELSE ret' = ret /\ pc' = "initialize"
    /\ UNCHANGED <<arg, heap, classes, to_check, checked>>

----------------------------------------------------------------------------
(* SpecCheckModel: check_model on the schema graphs over three classes *)

ClassIds == {"c1", "c2", "c3"}

(* the model_config of a class: that of pydantic_sweep.BaseModel, and      *)
(* those of subclasses of pydantic.BaseModel with other settings           *)
ModelConfigs ==
    { [extra |-> "forbid", arbitrary_types_allowed |-> FALSE, validate_assignment |-> TRUE],
      [extra |-> "forbid", arbitrary_types_allowed |-> FALSE, validate_assignment |-> FALSE],
      [extra |-> "ignore", arbitrary_types_allowed |-> FALSE, validate_assignment |-> TRUE],
      [extra |-> "forbid", arbitrary_types_allowed |-> TRUE, validate_assignment |-> TRUE] }

MakeClass(name, config, fields) ==
    [name |-> name, str |-> name, base |-> "BaseModel", extra |-> config.extra,
     arbitrary_types_allowed |-> config.arbitrary_types_allowed,
     validate_assignment |-> config.validate_assignment,
     fields |-> fields]

MakeField(name, annotation) ==
    [name |-> name, annotation |-> annotation, default |-> Required,
     discriminator |-> 0]

RootAnnotations ==
    { Builtin("int"), Class("c2"), Class("c3"),
      UnionType(<<Class("c2"), Class("c3")>>),
      UnionType(<<Class("c3"), Class("c2")>>),
      UnionType(<<Builtin("int"), Class("c3")>>),
      TypingUnion(<<Class("c2"), Class("c3")>>) }

SchemaGraphs ==
    { [c1 |-> MakeClass("Model", k[1], <<MakeField("x", Builtin("int")),
                                         MakeField("s", a1)>>),
       c2 |-> MakeClass("A", k[2], <<MakeField("s", a2)>>),
       c3 |-> MakeClass(n3, k[3], <<MakeField("s", a3)>>)] :
         k \in ModelConfigs \X ModelConfigs \X ModelConfigs,
         a1 \in RootAnnotations,
         a2 \in {Builtin("int"), Builtin("list"), Class("c1"), Class("c2"), Class("c3")},
         a3 \in {Builtin("int"), Class("c1"), Class("c2")},
         n3 \in {"A", "B"} }

InitCheckModel ==
    /\ pc = "call" /\ ret = None /\ heap = <<>>
    /\ to_check = <<>> /\ checked = {}
    /\ classes \in SchemaGraphs
    /\ \E unhashable \in {"warn", "raise"} :
          arg = [fn |-> "check_model", model |-> Class("c1"),
                 unhashable |-> unhashable]

NextCheckModel == CallCheckModel \/ CheckModelStep \/ CheckModelReturn

SpecCheckModel == InitCheckModel /\ [][NextCheckModel]_vars

(* the loop of check_model is sequential code that keeps running: a step   *)
(* that is possible is taken                                               *)
SpecCheckModelFair == SpecCheckModel /\ WF_vars(NextCheckModel)

----------------------------------------------------------------------------
(* _model.py: BaseModel and its _safe_union_validator; the construction of *)
(* a model from keyword arguments by pydantic, as initialize relies on it   *)

(* the outcome of a construction: what it returns or raises, and the heap  *)
(* after it.  A pydantic.ValidationError carries the type of its error.    *)
Done(v, h) == [exc |-> "none", val |-> v, heap |-> h]
Fail(exc, type, h) == [exc |-> exc, val |-> type, heap |-> h]

FieldNames(fields) == {fields[i].name : i \in 1..Len(fields)}
FieldNamed(fields, key) ==
    fields[CHOOSE i \in 1..Len(fields) : fields[i].name = key]

(* copy.deepcopy of a default that is not hashable: a model instance is    *)
(* copied with everything it refers to, an int is used as it is            *)
RECURSIVE deepcopy(_, _), deepcopy_attrs(_, _)
deepcopy(v, h) ==
    IF IsRef(v)
    THEN LET r == deepcopy_attrs(h[v[2]].attrs, h)
             h2 == Append(r.heap, [cls |-> h[v[2]].cls, attrs |-> r.val])
         IN  Done(Ref(Len(h2)), h2)
    ELSE Done(v, h)

deepcopy_attrs(attrs, h) ==
    IF attrs = <<>> THEN Done(<<>>, h)
    ELSE LET r1 == deepcopy(Head(attrs)[2], h)
             r2 == deepcopy_attrs(Tail(attrs), r1.heap)
         IN  Done(<< <<Head(attrs)[1], r1.val>> >> \o r2.val, r2.heap)

(* the first exception other than a ValidationError among the outcomes     *)
(* (it is not caught), else a ValidationError                              *)
FirstUncaught(results) ==
    LET bad == {i \in 1..Len(results) :
                   results[i].exc \notin {"none", "ValidationError"}}
    IN  IF bad = {} THEN 0 ELSE CHOOSE i \in bad : \A j \in bad : i <= j

RECURSIVE construct(_, _, _, _), validate(_, _, _, _, _)
RECURSIVE validate_fields(_, _, _, _), safe_union_loop(_, _, _, _, _)

(* what _safe_union_validator does with one item of data: "continue",      *)
(* the KeyError of fields[key] (it is AttributeError that is caught), or   *)
(* the validation of the value against each member model                   *)
safe_union_case(c, item, cl) ==
    IF ~IsDict(item[2]) THEN "continue"
    ELSE IF item[1] \notin FieldNames(cl[c].fields) THEN "KeyError"
    ELSE IF FieldNamed(cl[c].fields, item[1]).annotation[1] # "UnionType"
    THEN "continue"
    ELSE IF FieldNamed(cl[c].fields, item[1]).discriminator # 0 THEN "continue"
    ELSE "validate"

(* annotation.model_validate(value) for each member that is a model *)
safe_union_results(members, value, h, cl) ==
    [j \in 1..Len(members) |->
        IF members[j][1] = "class"
        THEN construct(members[j][2], value[2], h, cl)
        ELSE Fail("ValidationError", "skipped", h)]

(* len(matches) > 1 raises; with one match data[key] becomes the instance  *)
safe_union_matches(c, data, i, h, cl, results) ==
    LET matches == {j \in 1..Len(results) : results[j].exc = "none"}
        uncaught == FirstUncaught(results)
    IN  IF uncaught # 0 THEN results[uncaught]
        ELSE IF Cardinality(matches) > 1
        THEN Fail("ValidationError", "unsafe_union_error", h)
        ELSE IF matches # {}
        THEN LET m == CHOOSE j \in matches : TRUE
             IN  safe_union_loop(c,
                     [data EXCEPT ![i] = <<data[i][1], results[m].val>>],
                     i + 1, results[m].heap, cl)
        ELSE safe_union_loop(c, data, i + 1, h, cl)

(* _safe_union_validator from the i-th item of data on *)
safe_union_loop(c, data, i, h, cl) ==
    IF i > Len(data) THEN Done(data, h)
    ELSE CASE safe_union_case(c, data[i], cl) = "continue" ->
                 safe_union_loop(c, data, i + 1, h, cl)
           [] safe_union_case(c, data[i], cl) = "KeyError" ->
                 Fail("KeyError", data[i][1], h)
           [] OTHER ->
                 safe_union_matches(c, data, i, h, cl,
                     safe_union_results(
                         FieldNamed(cl[c].fields, data[i][1]).annotation[2],
                         data[i][2], h, cl))

(* the member of a union that pydantic takes: the leftmost that validates  *)
union_select(results, h) ==
    LET matches == {j \in 1..Len(results) : results[j].exc = "none"}
        uncaught == FirstUncaught(results)
    IN  IF uncaught # 0 THEN results[uncaught]
        ELSE IF matches = {} THEN Fail("ValidationError", "type", h)
        ELSE results[CHOOSE j \in matches : \A k \in matches : j <= k]

(* validation of a value against the annotation of a field: an int for     *)
(* int; for a model class an instance of it, kept as it is, or a dict, of  *)
(* which an instance is constructed; for a union (of either form) the      *)
(* member the discriminator selects or else the leftmost member that       *)
(* validates.                                                              *)
validate(annotation, discriminator, v, h, cl) ==
    CASE annotation[1] = "builtin" ->
            IF annotation[2] = "int" /\ v[1] = "int" THEN Done(v, h)
            ELSE Fail("ValidationError", "type", h)
      [] annotation[1] = "class" ->
            IF IsRef(v)
            THEN IF h[v[2]].cls = annotation[2] THEN Done(v, h)
                 ELSE Fail("ValidationError", "type", h)
            ELSE IF IsDict(v) THEN construct(annotation[2], v[2], h, cl)
            ELSE Fail("ValidationError", "type", h)
      [] OTHER ->
            IF discriminator # 0
            THEN validate(annotation[2][discriminator], 0, v, h, cl)
            ELSE union_select([j \in 1..Len(annotation[2]) |->
                                  validate(annotation[2][j], 0, v, h, cl)], h)

(* the value of one field: the validated value of its key, or a copy of    *)
(* the default, or an error if it is required and missing                  *)
validate_field(info, data, h, cl) ==
    IF DictHas(Dict(data), info.name)
    THEN validate(info.annotation, info.discriminator,
                  DictGet(Dict(data), info.name), h, cl)
    ELSE IF info.default = Required
    THEN Fail("ValidationError", "missing", h)
    ELSE deepcopy(info.default, h)

(* the outcome for a field and for the fields after it: an exception that  *)
(* is not a ValidationError propagates at once, the validation errors are  *)
(* collected                                                               *)
fields_result(name, r1, r2) ==
    IF r1.exc \notin {"none", "ValidationError"} THEN r1
    ELSE IF r2.exc \notin {"none", "ValidationError"} THEN r2
    ELSE IF r1.exc # "none" THEN r1
    ELSE IF r2.exc # "none" THEN r2
    ELSE Done(<< <<name, r1.val>> >> \o r2.val, r2.heap)

validate_fields_after(info, r1, fields, data, h, cl) ==
    fields_result(info.name, r1,
        validate_fields(fields, data, IF r1.exc = "none" THEN r1.heap ELSE h, cl))

(* the attributes for the declared fields, in their order *)
validate_fields(fields, data, h, cl) ==
    IF fields = <<>> THEN Done(<<>>, h)
    ELSE validate_fields_after(Head(fields),
             validate_field(Head(fields), data, h, cl),
             Tail(fields), data, h, cl)

(* the keys that are no fields raise with extra='forbid'; the new instance *)
(* is allocated at the end of the heap                                     *)
construct_instance(c, data, h, cl, r) ==
    IF r.exc \notin {"none", "ValidationError"} THEN r
    ELSE IF r.exc # "none" THEN Fail("ValidationError", r.val, h)
    ELSE IF /\ cl[c].extra = "forbid"
            /\ {data[i][1] : i \in 1..Len(data)} \ FieldNames(cl[c].fields) # {}
    THEN Fail("ValidationError", "extra_forbidden", h)
    ELSE Done(Ref(Len(r.heap) + 1),
              Append(r.heap, [cls |-> c, attrs |-> r.val]))

construct_validated(c, data, h, cl, before) ==
    IF before.exc # "none" THEN before
    ELSE construct_instance(c, data, h, cl,
             validate_fields(cl[c].fields, before.val, before.heap, cl))

(* cls called with data: the before-validator of BaseModel, the fields,    *)
(* then the instance                                                       *)
construct(c, data, h, cl) ==
    construct_validated(c, data, h, cl,
        IF cl[c].base = "BaseModel" THEN safe_union_loop(c, data, 1, h, cl)
        ELSE Done(data, h))

----------------------------------------------------------------------------
(* SpecUnion: the construction of a model with a union field *)

StrictConfig ==
    [extra |-> "forbid", arbitrary_types_allowed |-> FALSE, validate_assignment |-> TRUE]

UnionAnnotations ==
    { UnionType(<<Class("Sub1"), Class("Sub2")>>),
      UnionType(<<Class("Sub2"), Class("Sub1")>>),
      UnionType(<<Class("Sub1"), Class("Sub3")>>),
      UnionType(<<Class("Sub1"), Class("Sub2"), Class("Sub3")>>),
      UnionType(<<Class("Sub2"), Builtin("int")>>),
      TypingUnion(<<Class("Sub1"), Class("Sub2")>>),
      TypingUnion(<<Class("Sub1"), Class("Sub3")>>) }

UnionClasses(annotation, discriminator) ==
    [Sub1 |-> MakeClass("Sub1", StrictConfig,
                 << MakeField("x", Builtin("int")),
                    [MakeField("y", Builtin("int")) EXCEPT !.default = PyInt(5)] >>),
     Sub2 |-> MakeClass("Sub2", StrictConfig, << MakeField("x", Builtin("int")) >>),
     Sub3 |-> MakeClass("Sub3", StrictConfig, << MakeField("z", Builtin("int")) >>),
     Model |-> MakeClass("Model", StrictConfig,
                 << [MakeField("sub", annotation)
                        EXCEPT !.discriminator = discriminator] >>)]

(* instances of Sub1 and of Sub2 that the caller made *)
UnionHeap ==
    << [cls |-> "Sub1", attrs |-> << <<"x", PyInt(1)>>, <<"y", PyInt(5)>> >>],
       [cls |-> "Sub2", attrs |-> << <<"x", PyInt(1)>> >>] >>

UnionValues ==
    {Dict(its) : its \in {<<>>,
                          << <<"x", PyInt(1)>> >>,
                          << <<"y", PyInt(2)>> >>,
                          << <<"z", PyInt(1)>> >>,
                          << <<"x", PyInt(1)>>, <<"y", PyInt(2)>> >>,
                          << <<"x", PyInt(1)>>, <<"z", PyInt(1)>> >>,
                          << <<"x", DefaultValue>> >>}}
    \cup {PyInt(1), Ref(1), Ref(2)}

InitUnion ==
    /\ pc = "call" /\ ret = None /\ heap = UnionHeap
    /\ to_check = <<>> /\ checked = {}
    /\ \E annotation \in UnionAnnotations, discriminator \in 0..2 :
          classes = UnionClasses(annotation, discriminator)
    /\ \E data \in {<<>>} \cup {<< <<"sub", v>> >> : v \in UnionValues} :
          arg = [fn |-> "construct", model |-> Class("Model"), data |-> data]

CallConstruct ==
    /\ pc = "call" /\ arg.fn = "construct"
    /\ LET r == construct(arg.model[2], arg.data, heap, classes)
       IN  /\ ret' = [exc |-> r.exc, val |-> r.val]
           /\ heap' = r.heap
    /\ pc' = "done"
    /\ UNCHANGED <<arg, classes, to_check, checked>>

NextUnion == CallConstruct

SpecUnion == InitUnion /\ [][NextUnion]_vars

----------------------------------------------------------------------------
(* _utils.py: normalize_path, items_skip; _model.py: initialize *)

(* str.split(".") on the strings that are used as keys *)
StrSplit ==
    ("x" :> <<"x">>) @@ ("y" :> <<"y">>) @@ ("sub" :> <<"sub">>)
    @@ ("sub.x" :> <<"sub", "x">>) @@ ("sub." :> <<"sub", "">>)
    @@ ("sub.y" :> <<"sub", "y">>)

(* re.fullmatch(_STR_KEY_PATTERN, key): of the keys used only the empty    *)
(* one is no identifier                                                    *)
IsValidKey(key) == key # ""

(* a path is <<"str", s>> or <<"tuple", keys>>.  A string matches          *)
(* _STR_PATH_PATTERN iff every part between its dots is a valid key.       *)
normalize_path(path, check_keys) ==
    IF path[1] = "str"
    THEN IF \A i \in 1..Len(StrSplit[path[2]]) : IsValidKey(StrSplit[path[2]][i])
         THEN Ok(StrSplit[path[2]])
         ELSE Raise("ValueError")
    ELSE IF check_keys /\ \E i \in 1..Len(path[2]) : ~IsValidKey(path[2][i])
         THEN Raise("ValueError")
         ELSE Ok(path[2])

----------------------------------------------------------------------------
(* _utils.py: normalize_path on strings given character by character, a    *)
(* string being the sequence of its characters                             *)

(* [A-Za-z_] and [A-Za-z0-9_], on the characters "a", "_", "0", ".", ","   *)
(* and the newline                                                         *)
PathChars == {"a", "_", "0", ".", ",", "\n"}
IsKeyStart(c) == c \in {"a", "_"}
IsKeyChar(c) == c \in {"a", "_", "0"}

(* re.fullmatch(_STR_PATH_PATTERN, path): the automaton of                 *)
(* ^key(\.key)*$ read from left to right; at_start says that a key has to  *)
(* begin.  The match has to end at the end of the string, so the $ can     *)
(* not stand before a last newline.                                        *)
RECURSIVE fullmatch_from(_, _, _)
fullmatch_from(chars, at_start, dots) ==
    IF chars = <<>> THEN ~at_start
    ELSE IF at_start THEN IsKeyStart(Head(chars)) /\ fullmatch_from(Tail(chars), FALSE, dots)
    ELSE \/ IsKeyChar(Head(chars)) /\ fullmatch_from(Tail(chars), FALSE, dots)
         \/ dots /\ Head(chars) = "." /\ fullmatch_from(Tail(chars), TRUE, dots)

(* Mutant: a pattern of key characters and dots that does not say where    *)
(* the dots may stand.                                                     *)
fullmatch_path_loose(chars) ==
    chars # <<>> /\ \A i \in 1..Len(chars) : IsKeyChar(chars[i]) \/ chars[i] = "."

fullmatch_path(chars) == fullmatch_from(chars, TRUE, TRUE)

(* re.fullmatch(_STR_KEY_PATTERN, p) *)
fullmatch_key(chars) == fullmatch_from(chars, TRUE, FALSE)

(* path.split("."): the parts between the dots, the empty ones included *)
RECURSIVE str_split(_, _)
str_split(chars, part) ==
    IF chars = <<>> THEN <<part>>
    ELSE IF Head(chars) = "." THEN <<part>> \o str_split(Tail(chars), <<>>)
    ELSE str_split(Tail(chars), Append(part, Head(chars)))

(* normalize_path(path, check_keys=...) for a path <<"str", chars>> or     *)
(* <<"tuple", keys>>                                                       *)
normalize_path_chars(path, check_keys) ==
    IF path[1] = "str"
    THEN IF ~fullmatch_path(path[2]) THEN Raise("ValueError")
         ELSE Ok(str_split(path[2], <<>>))
    ELSE IF check_keys /\ \E i \in 1..Len(path[2]) : ~fullmatch_key(path[2][i])
         THEN Raise("ValueError")
         ELSE Ok(path[2])

(* SpecPath: normalize_path on every string of at most MaxChars            *)
(* characters and on the tuples of at most two short strings               *)
MaxChars == 4

InitPath ==
    /\ pc = "call" /\ ret = None /\ heap = <<>> /\ classes = <<>>
    /\ to_check = <<>> /\ checked = {}
    /\ \E path \in ({<<"str", c>> : c \in SeqsUpTo(PathChars, MaxChars)}
                    \cup {<<"tuple", k>> : k \in SeqsUpTo(SeqsUpTo(PathChars, 2), 2)}) :
       \E check_keys \in BOOLEAN :
          arg = [fn |-> "normalize_path", path |-> path, check_keys |-> check_keys]

CallNormalizePath ==
    /\ pc = "call" /\ arg.fn = "normalize_path"
    /\ ret' = normalize_path_chars(arg.path, arg.check_keys)
    /\ pc' = "done"
    /\ UNCHANGED <<arg, heap, classes, to_check, checked>>

NextPath == CallNormalizePath

SpecPath == InitPath /\ [][NextPath]_vars

----------------------------------------------------------------------------
RECURSIVE items_skip(_, _)
items_skip(items, target) ==
    IF items = <<>> THEN <<>>
    ELSE (IF Head(items)[2] # target THEN <<Head(items)>> ELSE <<>>)
         \o items_skip(Tail(items), target)

(* Mutant: no placeholder is pruned.                                       *)
config_prune_nothing(config) == Ok(config)

config_prune_default(config) ==
    nested_dict_from_items(items_skip(nested_dict_items(config), DefaultValue))

(* nested_dict_from_items((normalize_path(key), value) for key, value in   *)
(* d.items()), with the items whose value is DefaultValue left out if      *)
(* skip_default.  normalize_path and the insertion raise the same error.   *)
RECURSIVE normalized_items(_, _)
normalized_items(items, skip_default) ==
    IF items = <<>> THEN Ok(<<>>)
    ELSE IF skip_default /\ Head(items)[2] = DefaultValue
    THEN normalized_items(Tail(items), skip_default)
    ELSE LET path == normalize_path(<<"str", Head(items)[1]>>, FALSE)
             rest == normalized_items(Tail(items), skip_default)
         IN  IF path.exc # "none" THEN path
             ELSE IF rest.exc # "none" THEN rest
             ELSE Ok(<< <<path.val, Head(items)[2]>> >> \o rest.val)

overlay_from_items(d, skip_default) ==
    LET items == normalized_items(d[2], skip_default)
    IN  IF items.exc # "none" THEN items ELSE nested_dict_from_items(items.val)

(* Mutant: the constant is merged in with overwrite, so that no collision  *)
(* is detected.                                                            *)
initialize_constant_overwrite(configs, constant) ==
    IF constant = PyNone THEN Ok(configs)
    ELSE IF ~IsDict(constant) THEN Raise("TypeError")
    ELSE LET c == overlay_from_items(constant, FALSE)
         IN  IF c.exc # "none" THEN c
             ELSE Ok([i \in 1..Len(configs) |->
                        merge_nested_dicts(<<configs[i], c.val>>, TRUE).val])

(* initialize: if constant is not None ... config_product(configs, [constant]) *)
initialize_constant(configs, constant) ==
    IF constant = PyNone THEN Ok(configs)
    ELSE IF ~IsDict(constant) THEN Raise("TypeError")
    ELSE LET c == overlay_from_items(constant, FALSE)
         IN  IF c.exc # "none" THEN c
             ELSE config_product(<<configs, <<c.val>> >>)

(* Mutant: the entry is the base of the merge and default is laid over it. *)
initialize_default_wins(configs, default) ==
    IF default = PyNone THEN Ok(configs)
    ELSE IF ~IsDict(default) THEN Raise("TypeError")
    ELSE LET d == overlay_from_items(default, TRUE)
         IN  IF d.exc # "none" THEN d
             ELSE Ok([i \in 1..Len(configs) |->
                        merge_nested_dicts(<<configs[i], d.val>>, TRUE).val])

(* initialize: if default is not None ... merge_nested_dicts(default,      *)
(* param, overwrite=True) for param in configs                             *)
initialize_default(configs, default) ==
    IF default = PyNone THEN Ok(configs)
    ELSE IF ~IsDict(default) THEN Raise("TypeError")
    ELSE LET d == overlay_from_items(default, TRUE)
         IN  IF d.exc # "none" THEN d
             ELSE Ok([i \in 1..Len(configs) |->
                        merge_nested_dicts(<<d.val, configs[i]>>, TRUE).val])

(* initialize up to the construction of the models: constant, pruning of   *)
(* the placeholders, default                                               *)
initialize_pruned(c, default) ==
    IF c.exc # "none" THEN c
    ELSE initialize_default(
             [i \in 1..Len(c.val) |-> config_prune_default(c.val[i]).val],
             default)

initialize_overlay(configs, constant, default) ==
    initialize_pruned(initialize_constant(configs, constant), default)

(* models = [model called with config, for config in configs]: the first   *)
(* construction that raises ends the comprehension                         *)
RECURSIVE initialize_models(_, _, _, _)
models_result(m, r, h) ==
    IF r.exc # "none" THEN Fail(r.exc, r.val, h)
    ELSE Done(<<m.val>> \o r.val, r.heap)

models_after(c, m, configs, h, cl) ==
    IF m.exc # "none" THEN Fail(m.exc, m.val, h)
    ELSE models_result(m, initialize_models(c, configs, m.heap, cl), h)

initialize_models(c, configs, h, cl) ==
    IF configs = <<>> THEN Done(<<>>, h)
    ELSE models_after(c, construct(c, Head(configs)[2], h, cl),
                      Tail(configs), h, cl)

(* a dict that is an object of the heap (cls "dict", the items in attrs):  *)
(* whoever holds a reference to it sees a change of it                     *)
IsDictObject(v, h) == IsRef(v) /\ h[v[2]].cls = "dict"

(* One iteration of the loop of nested_dict_from_items on dict objects:    *)
(* a missing part gets a new dict, node = node[part] takes the object      *)
(* that is there, and node[key] = value writes into the object reached.    *)
RECURSIVE insert_object(_, _, _, _)
insert_object(node, full_path, value, h) ==
    LET key == Head(full_path)
        rest == Tail(full_path)
        attrs == Dict(h[node[2]].attrs)
    IN  IF rest = <<>>
        THEN IF DictHas(attrs, key) THEN Fail("ValueError", <<>>, h)
             ELSE Done(node, [h EXCEPT ![node[2]].attrs = DictSet(attrs, key, value)[2]])
        ELSE IF ~DictHas(attrs, key)
        THEN insert_object(Ref(Len(h) + 1), rest, value,
                 Append([h EXCEPT ![node[2]].attrs =
                            DictSet(attrs, key, Ref(Len(h) + 1))[2]],
                        [cls |-> "dict", attrs |-> <<>>]))
        ELSE IF ~IsDictObject(DictGet(attrs, key), h) THEN Fail("ValueError", <<>>, h)
        ELSE insert_object(DictGet(attrs, key), rest, value, h)

(* the loop over the items of d, a dict object: normalize_path(key), the   *)
(* items with DefaultValue left out if skip_default, the insertion         *)
RECURSIVE from_items_objects(_, _, _, _)
from_items_next(result, r, items, skip_default) ==
    IF r.exc # "none" THEN r
    ELSE from_items_objects(result, items, skip_default, r.heap)

from_items_objects(result, items, skip_default, h) ==
    IF items = <<>> THEN Done(result, h)
    ELSE IF skip_default /\ Head(items)[2] = DefaultValue
    THEN from_items_objects(result, Tail(items), skip_default, h)
    ELSE IF normalize_path(<<"str", Head(items)[1]>>, FALSE).exc # "none"
    THEN Fail("ValueError", <<>>, h)
    ELSE from_items_next(result,
             insert_object(result,
                 normalize_path(<<"str", Head(items)[1]>>, FALSE).val,
                 Head(items)[2], h),
             Tail(items), skip_default)

(* constant = nested_dict_from_items(... constant.items()) or the same for *)
(* default: result = dict(), then the loop                                 *)
overlay_objects(d, skip_default, h) ==
    IF ~IsDictObject(d, h) THEN Done(d, h)
    ELSE from_items_objects(Ref(Len(h) + 1), h[d[2]].attrs, skip_default,
                            Append(h, [cls |-> "dict", attrs |-> <<>>]))

(* the heap after the steps of initialize before the models are made, for  *)
(* a caller that passes constant and default as dict objects: everything   *)
(* else of these steps is built from leaves in new dicts.  The step of     *)
(* default is reached when the step of constant has not raised.            *)
initialize_objects(objects, reached, h) ==
    IF reached THEN overlay_objects(objects.default, TRUE,
                                    overlay_objects(objects.constant, FALSE, h).heap).heap
    ELSE overlay_objects(objects.constant, FALSE, h).heap

(* the call of initialize(model, configs, constant=..., default=...), on   *)
(* configs given directly or on the product just computed; it starts with  *)
(* check_model(model).  The local variable configs is kept in ret.         *)
CallInitialize ==
    /\ <<pc, arg.fn>> \in {<<"call", "initialize">>, <<"product", "field">>}
    /\ ret' = IF pc = "call" THEN Ok(arg.configs) ELSE ret
    /\ to_check' = << <<(<<>>), arg.model>> >>
    /\ checked' = {}
    /\ pc' = "check_model"
    /\ UNCHANGED <<arg, heap, classes>>

InitializeOverlay ==
    /\ pc = "initialize"
    /\ ret' = initialize_overlay(ret.val, arg.constant, arg.default)
    /\ pc' = IF ret'.exc # "none" THEN "done"
             ELSE IF arg.at # PyNone THEN "at" ELSE "construct"
    /\ heap' = IF "objects" \in DOMAIN arg
               THEN initialize_objects(arg.objects,
                        initialize_constant(ret.val, arg.constant).exc = "none", heap)
               ELSE heap
    /\ UNCHANGED <<arg, classes, to_check, checked>>

InitializeConstruct ==
    /\ pc = "construct"
    /\ LET r == initialize_models(arg.model[2], ret.val, heap, classes)
       IN  /\ ret' = [exc |-> r.exc, val |-> r.val]
           /\ heap' = r.heap
    /\ pc' = "done"
    /\ UNCHANGED <<arg, classes, to_check, checked>>

(* nested_dict_get on a config held by value: for p in path: d = d[p],    *)
(* then the test of leaf                                                   *)
RECURSIVE config_get_descend(_, _)
config_get_descend(d, path) ==
    IF path = <<>> THEN Ok(d)
    ELSE IF ~IsDict(d) THEN Raise("TypeError")
    ELSE IF ~DictHas(d, Head(path)) THEN Raise("KeyError")
    ELSE config_get_descend(DictGet(d, Head(path)), Tail(path))

config_get_checked(r, leaf) ==
    IF r.exc # "none" \/ leaf = "None" THEN r
    ELSE IF leaf = "True" /\ IsDict(r.val) THEN Raise("ValueError")
    ELSE IF leaf = "False" /\ ~IsDict(r.val) THEN Raise("ValueError")
    ELSE r

config_get(d, path, leaf) == config_get_checked(config_get_descend(d, path), leaf)

(* copy.deepcopy of a config held by value: the model instances at its     *)
(* leaves are copied                                                       *)
RECURSIVE copy_config(_, _), copy_config_items(_, _)
copy_config(v, h) ==
    IF IsDict(v)
    THEN LET r == copy_config_items(v[2], h)
         IN  Done(Dict(r.val), r.heap)
    ELSE deepcopy(v, h)

copy_config_items(its, h) ==
    IF its = <<>> THEN Done(<<>>, h)
    ELSE LET r1 == copy_config(Head(its)[2], h)
             r2 == copy_config_items(Tail(its), r1.heap)
         IN  Done(<< <<Head(its)[1], r1.val>> >> \o r2.val, r2.heap)

(* nested_dict_replace on the copy: the descent along subpath and the      *)
(* assignment to the final key                                             *)
RECURSIVE config_replace_in(_, _, _)
config_replace_set(d, key, r) ==
    IF r.exc # "none" THEN r ELSE Ok(DictSet(d, key, r.val))

config_replace_in(d, path, value) ==
    IF ~DictHas(d, Head(path)) THEN Raise("KeyError")
    ELSE IF Len(path) = 1 THEN Ok(DictSet(d, Head(path), value))
    ELSE IF ~IsDict(DictGet(d, Head(path))) THEN Raise("ValueError")
    ELSE config_replace_set(d, Head(path),
             config_replace_in(DictGet(d, Head(path)), Tail(path), value))

config_replaced(c, r) ==
    IF r.exc # "none" THEN Fail(r.exc, <<>>, c.heap) ELSE Done(r.val, c.heap)

config_replace_copy(c, path, value) ==
    IF path = <<>> THEN Fail("ValueError", <<>>, c.heap)
    ELSE config_replaced(c, config_replace_in(c.val, path, value))

config_replace(d, path, value, h) ==
    config_replace_copy(copy_config(d, h), path, value)

(* subconfigs = [nested_dict_get(param, at, leaf=False) for param in       *)
(* configs]: the first call that raises ends the comprehension             *)
RECURSIVE at_subconfigs(_, _)
at_subconfigs_after(g, r) ==
    IF r.exc # "none" THEN r ELSE Ok(<<g.val>> \o r.val)

at_subconfigs_next(g, configs, at) ==
    IF g.exc # "none" THEN g
    ELSE at_subconfigs_after(g, at_subconfigs(configs, at))

at_subconfigs(configs, at) ==
    IF configs = <<>> THEN Ok(<<>>)
    ELSE at_subconfigs_next(config_get(Head(configs), at, "False"), Tail(configs), at)

(* [nested_dict_replace(param, path=at, value=submodel) for param,         *)
(* submodel in zip(configs, submodels)]                                    *)
RECURSIVE at_replace_each(_, _, _, _)
at_replace_after(r1, r2) ==
    IF r2.exc # "none" THEN r2 ELSE Done(<<r1.val>> \o r2.val, r2.heap)

at_replace_next(r1, configs, at, models) ==
    IF r1.exc # "none" THEN r1
    ELSE at_replace_after(r1, at_replace_each(configs, at, models, r1.heap))

at_replace_each(configs, at, models, h) ==
    IF configs = <<>> \/ models = <<>> THEN Done(<<>>, h)
    ELSE at_replace_next(config_replace(Head(configs), at, Head(models), h),
                         Tail(configs), at, Tail(models))

(* if at is not None: to must be None; the sub-configs at the path; the    *)
(* call initialize(model, subconfigs), whose check_model passes as it did  *)
(* before and which has neither constant nor default; the models put in    *)
(* the place of the sub-configs                                            *)
at_result(configs, at, m) ==
    IF m.exc # "none" THEN Fail(m.exc, m.val, m.heap)
    ELSE at_replace_each(configs, at, m.val, m.heap)

at_models(c, configs, at, o, h, cl) ==
    IF o.exc # "none" THEN Fail(o.exc, o.val, h)
    ELSE at_result(configs, at, initialize_models(c, o.val, h, cl))

at_recurse(c, configs, at, subs, h, cl) ==
    IF subs.exc # "none" THEN Fail(subs.exc, subs.val, h)
    ELSE at_models(c, configs, at, initialize_overlay(subs.val, PyNone, PyNone), h, cl)

initialize_at(c, configs, at, to, h, cl) ==
    IF to # PyNone THEN Fail("ValueError", <<>>, h)
    ELSE at_recurse(c, configs, at, at_subconfigs(configs, at), h, cl)

InitializeAt ==
    /\ pc = "at"
    /\ LET r == initialize_at(arg.model[2], ret.val, arg.at, arg.to, heap, classes)
       IN  /\ ret' = [exc |-> r.exc, val |-> r.val]
           /\ heap' = r.heap
    /\ pc' = "done"
    /\ UNCHANGED <<arg, classes, to_check, checked>>

(* the caller assigns 10 to sub.x of one of the models returned *)
Mutate ==
    /\ pc = "done" /\ arg.fn = "field" /\ ret.exc = "none"
    /\ \E i \in 1..Len(ret.val) :
          LET m == heap[ret.val[i][2]]
              sub == DictGet(Dict(m.attrs), "sub")
          IN  /\ DictGet(Dict(heap[sub[2]].attrs), "x") # PyInt(10)
              /\ heap' = [heap EXCEPT ![sub[2]].attrs =
                            DictSet(Dict(@), "x", PyInt(10))[2]]
    /\ pc' = "mutated"
    /\ UNCHANGED <<arg, ret, classes, to_check, checked>>

----------------------------------------------------------------------------
(* The schema of the calls of initialize:                                  *)
(*   class Sub(BaseModel): x: int = 5                                      *)
(*   class Model(BaseModel): x: int; sub: Sub = Sub()                      *)
(* heap[1] is the instance of Sub that is the default of Model.sub and     *)
(* heap[2] an instance of Sub that the caller made.                        *)

InitClasses ==
    [Sub |-> MakeClass("Sub", StrictConfig,
                << [MakeField("x", Builtin("int")) EXCEPT !.default = PyInt(5)] >>),
     Model |-> MakeClass("Model", StrictConfig,
                << MakeField("x", Builtin("int")),
                   [MakeField("sub", Class("Sub")) EXCEPT !.default = Ref(1)] >>)]

InitHeap ==
    << [cls |-> "Sub", attrs |-> << <<"x", PyInt(5)>> >>],
       [cls |-> "Sub", attrs |-> << <<"x", PyInt(7)>> >>] >>

----------------------------------------------------------------------------
(* SpecInit: initialize on entries with placeholders, constant and default *)

(* an entry binds x and sub.x to a value, to the placeholder or not at     *)
(* all, or binds sub itself                                                *)
InitEntries ==
    {Dict(xs \o ss) :
        xs \in {<<>>, << <<"x", PyInt(1)>> >>, << <<"x", DefaultValue>> >>},
        ss \in {<<>>,
                << <<"sub", Dict(<< <<"x", PyInt(1)>> >>)>> >>,
                << <<"sub", Dict(<< <<"x", DefaultValue>> >>)>> >>,
                << <<"sub", Ref(2)>> >>,
                << <<"sub", DefaultValue>> >>}}

RECURSIVE TotalLeaves(_)
TotalLeaves(configs) ==
    IF configs = <<>> THEN 0
    ELSE Len(nested_dict_items(Head(configs))) + TotalLeaves(Tail(configs))

InitConfigs ==
    {cs \in SeqsUpTo(InitEntries, MaxLen) : TotalLeaves(cs) <= MaxItems}

Constants ==
    { Dict(<< <<"x", PyInt(2)>> >>),
      Dict(<< <<"x", PyInt(1)>> >>),
      Dict(<< <<"sub.x", PyInt(2)>> >>),
      Dict(<< <<"sub", Dict(<< <<"x", PyInt(2)>> >>)>> >>),
      Dict(<< <<"sub", Ref(2)>> >>),
      Dict(<< <<"x", DefaultValue>> >>),
      List(<< PyInt(5) >>) }

Defaults ==
    { Dict(<< <<"x", PyInt(3)>> >>),
      Dict(<< <<"sub.x", PyInt(3)>> >>),
      Dict(<< <<"sub", Dict(<< <<"x", PyInt(3)>> >>)>> >>),
      Dict(<< <<"sub", Ref(2)>> >>),
      Dict(<< <<"x", DefaultValue>> >>),
      Dict(<< <<"sub", Dict(<< <<"x", DefaultValue>> >>)>> >>),
      List(<< PyInt(5) >>) }

(* constant or default alone, and both together on different paths and on  *)
(* the same path                                                           *)
Overlays ==
    ((Constants \cup {PyNone}) \X {PyNone})
    \cup ({PyNone} \X Defaults)
    \cup { <<Dict(<< <<"x", PyInt(2)>> >>), Dict(<< <<"sub.x", PyInt(3)>> >>)>>,
           <<Dict(<< <<"sub.x", PyInt(2)>> >>), Dict(<< <<"x", PyInt(3)>> >>)>>,
           <<Dict(<< <<"x", PyInt(2)>> >>), Dict(<< <<"x", PyInt(3)>> >>)>>,
           <<Dict(<< <<"sub", Ref(2)>> >>), Dict(<< <<"sub.x", PyInt(3)>> >>)>> }

InitInit ==
    /\ pc = "call" /\ ret = None /\ heap = InitHeap /\ classes = InitClasses
    /\ to_check = <<>> /\ checked = {}
    /\ \E cs \in InitConfigs : \E o \in Overlays :
          arg = [fn |-> "initialize", model |-> Class("Model"), configs |-> cs,
                 constant |-> o[1], default |-> o[2], unhashable |-> "warn",
                 at |-> PyNone, to |-> PyNone]

NextInit ==
    \/ CallInitialize
    \/ CheckModelStep
    \/ CheckModelReturn
    \/ InitializeOverlay
    \/ InitializeConstruct

SpecInit == InitInit /\ [][NextInit]_vars

----------------------------------------------------------------------------
(* SpecCopy: field, config_product, initialize, and then an assignment to  *)
(* a nested model of one of the results                                    *)

CopyFields ==
    {<<p, vs>> : p \in {<<"x">>}, vs \in SeqsUpTo({PyInt(1), PyInt(2)}, MaxLen) \ {<<>>}}
    \cup {<<p, vs>> : p \in {<<"sub">>},
                      vs \in SeqsUpTo({Ref(2), DefaultValue}, MaxLen) \ {<<>>}}
    \cup {<<p, vs>> : p \in {<<"sub", "x">>},
                      vs \in SeqsUpTo({PyInt(1), DefaultValue}, MaxLen) \ {<<>>}}

InitCopy ==
    /\ pc = "call" /\ ret = None /\ heap = InitHeap /\ classes = InitClasses
    /\ to_check = <<>> /\ checked = {}
    /\ \E fs \in SeqsUpTo(CopyFields, MaxInputs) :
       \E default \in {PyNone, Dict(<< <<"x", PyInt(3)>> >>)} :
          arg = [fn |-> "field", model |-> Class("Model"), fields |-> fs,
                 constant |-> PyNone, default |-> default, unhashable |-> "warn",
                 at |-> PyNone, to |-> PyNone]

(* the calls field(path, values) that build the inputs of the product *)
CallField ==
    /\ pc = "call" /\ arg.fn = "field"
    /\ ret' = Ok([i \in 1..Len(arg.fields) |->
                    field(arg.fields[i][1], arg.fields[i][2]).val])
    /\ pc' = "field"
    /\ UNCHANGED <<arg, heap, classes, to_check, checked>>

CallProductOfFields ==
    /\ pc = "field"
    /\ ret' = config_product(ret.val)
    /\ pc' = IF ret'.exc = "none" THEN "product" ELSE "done"
    /\ UNCHANGED <<arg, heap, classes, to_check, checked>>

NextCopy ==
    \/ CallField
    \/ CallProductOfFields
    \/ CallInitialize
    \/ CheckModelStep
    \/ CheckModelReturn
    \/ InitializeOverlay
    \/ InitializeConstruct
    \/ Mutate

SpecCopy == InitCopy /\ [][NextCopy]_vars

----------------------------------------------------------------------------
(* SpecAt: initialize(Sub, configs, constant=..., default=..., at=...,     *)
(* to=...): the model is made from the sub-config at the path at           *)

(* entries with a sub-config at sub (with a value, with the placeholder,   *)
(* with a key that is no field, beside other paths), with a leaf at sub,   *)
(* and without sub                                                         *)
AtEntries ==
    {Dict(<< <<"sub", Dict(<< <<"x", PyInt(1)>> >>)>> >>),
     Dict(<< <<"sub", Dict(<< <<"x", PyInt(2)>> >>)>>, <<"x", PyInt(1)>> >>),
     Dict(<< <<"s", Ref(2)>>, <<"sub", Dict(<< <<"x", PyInt(1)>> >>)>> >>),
     Dict(<< <<"sub", Dict(<< <<"x", DefaultValue>> >>)>> >>),
     Dict(<< <<"sub", Dict(<< <<"x", DefaultValue>> >>)>>, <<"x", PyInt(1)>> >>),
     Dict(<< <<"sub", Dict(<< <<"y", PyInt(1)>> >>)>> >>),
     Dict(<< <<"sub", PyInt(1)>> >>),
     Dict(<< <<"sub", Ref(2)>> >>),
     Dict(<< <<"x", PyInt(1)>> >>)}

AtOverlays ==
    {<<PyNone, PyNone>>,
     <<Dict(<< <<"x", PyInt(2)>> >>), PyNone>>,
     <<Dict(<< <<"sub.x", PyInt(2)>> >>), PyNone>>,
     <<PyNone, Dict(<< <<"sub.x", PyInt(3)>> >>)>>,
     <<PyNone, Dict(<< <<"x", PyInt(3)>> >>)>>}

InitAt ==
    /\ pc = "call" /\ ret = None /\ heap = InitHeap /\ classes = InitClasses
    /\ to_check = <<>> /\ checked = {}
    /\ \E cs \in SeqsUpTo(AtEntries, MaxLen) : \E o \in AtOverlays :
       \E at \in {<<"sub">>, <<"sub", "x">>} : \E to \in {PyNone, <<"t">>} :
          arg = [fn |-> "initialize", model |-> Class("Sub"), configs |-> cs,
                 constant |-> o[1], default |-> o[2], unhashable |-> "warn",
                 at |-> at, to |-> to]

NextAt ==
    \/ CallInitialize
    \/ CheckModelStep
    \/ CheckModelReturn
    \/ InitializeOverlay
    \/ InitializeAt

SpecAt == InitAt /\ [][NextAt]_vars

----------------------------------------------------------------------------
(* SpecExtra: Model or Sub called with keyword arguments, among them a key *)
(* y that is no field, with a value that is a dict or is none              *)

ExtraValues == {PyInt(1), PyNone, Ref(2), EmptyDict, Dict(<< <<"x", PyInt(1)>> >>)}

(* the items for the fields, in the order the caller wrote them *)
FieldItems ==
    {<<>>, << <<"x", PyInt(1)>> >>, << <<"x", PyNone>> >>,
     << <<"x", PyInt(1)>>, <<"sub", Dict(<< <<"x", PyInt(2)>> >>)>> >>,
     << <<"sub", Ref(2)>>, <<"x", PyInt(1)>> >>}
    \cup {<< <<"x", PyInt(1)>>, <<"sub", Dict(<< <<"y", v>> >>)>> >> : v \in ExtraValues}

(* items with (y, v) put at position n *)
WithItem(items, n, v) ==
    SubSeq(items, 1, n - 1) \o << <<"y", v>> >> \o SubSeq(items, n, Len(items))

InitExtra ==
    /\ pc = "call" /\ ret = None /\ heap = InitHeap /\ classes = InitClasses
    /\ to_check = <<>> /\ checked = {}
    /\ \E model \in {"Model", "Sub"} : \E items \in FieldItems :
       \E data \in {items} \cup {WithItem(items, n, v) :
                                    n \in 1..(Len(items) + 1), v \in ExtraValues} :
          arg = [fn |-> "construct", model |-> Class(model), data |-> data]

NextExtra == CallConstruct

SpecExtra == InitExtra /\ [][NextExtra]_vars

----------------------------------------------------------------------------
(* nested_dict_get and nested_dict_replace.  The dicts of these calls are  *)
(* objects of the heap (cls "dict", the items in attrs), a nested dict is  *)
(* a reference to another object: a replacement in place changes the       *)
(* object, and every holder of a reference to it sees the change.          *)

(* a dict object and what it holds, as a config by value *)
RECURSIVE ConfigOf(_, _)
ConfigOf(v, h) ==
    IF IsDictObject(v, h)
    THEN Dict([i \in 1..Len(h[v[2]].attrs) |->
                 <<h[v[2]].attrs[i][1], ConfigOf(h[v[2]].attrs[i][2], h)>>])
    ELSE v

(* the objects a dict display creates for a config *)
RECURSIVE new_dict(_, _), new_items(_, _)
new_dict(v, h) ==
    IF IsDict(v)
    THEN LET r == new_items(v[2], h)
         IN  Done(Ref(Len(r.heap) + 1),
                  Append(r.heap, [cls |-> "dict", attrs |-> r.val]))
    ELSE Done(v, h)

new_items(its, h) ==
    IF its = <<>> THEN Done(<<>>, h)
    ELSE LET r1 == new_dict(Head(its)[2], h)
             r2 == new_items(Tail(its), r1.heap)
         IN  Done(<< <<Head(its)[1], r1.val>> >> \o r2.val, r2.heap)

(* for p in path: d = d[p].  Subscripting a dict with a key it does not    *)
(* have raises KeyError, subscripting a leaf (an int is not subscriptable) *)
(* raises TypeError.                                                       *)
RECURSIVE get_descend(_, _, _)
get_descend(d, path, h) ==
    IF path = <<>> THEN Ok(d)
    ELSE IF ~IsDictObject(d, h) THEN Raise("TypeError")
    ELSE IF ~DictHas(Dict(h[d[2]].attrs), Head(path)) THEN Raise("KeyError")
    ELSE get_descend(DictGet(Dict(h[d[2]].attrs), Head(path)), Tail(path), h)

(* if leaf is not None: a leaf is wanted and a dict is found, or the       *)
(* other way round                                                         *)
get_checked(r, leaf, h) ==
    IF r.exc # "none" \/ leaf = "None" THEN r
    ELSE IF leaf = "True" /\ IsDictObject(r.val, h) THEN Raise("ValueError")
    ELSE IF leaf = "False" /\ ~IsDictObject(r.val, h) THEN Raise("ValueError")
    ELSE r

nested_dict_get(d, path, leaf, h) == get_checked(get_descend(d, path, h), leaf, h)

(* Mutant: copy.copy, a new top-level dict that holds the same nested dicts *)
replace_copy_shallow(d, h) ==
    Done(Ref(Len(h) + 1), Append(h, h[d[2]]))

(* d = copy.deepcopy(d) *)
replace_copy(d, h) == deepcopy(d, h)

(* for i, key in enumerate(subpath): sub = node[key]; a sub that is not a  *)
(* dict raises ValueError; node = sub                                      *)
RECURSIVE replace_descend(_, _, _)
replace_descend(node, subpath, h) ==
    IF subpath = <<>> THEN Ok(node)
    ELSE IF ~DictHas(Dict(h[node[2]].attrs), Head(subpath)) THEN Raise("KeyError")
    ELSE LET sub == DictGet(Dict(h[node[2]].attrs), Head(subpath))
         IN  IF ~IsDictObject(sub, h) THEN Raise("ValueError")
             ELSE replace_descend(sub, Tail(subpath), h)

(* if final not in node: raise KeyError; else node[final] = value; return d *)
replace_final(d, node, final, value, h) ==
    IF node.exc # "none" THEN Fail(node.exc, <<>>, h)
    ELSE IF ~DictHas(Dict(h[node.val[2]].attrs), final) THEN Fail("KeyError", <<>>, h)
    ELSE Done(d, [h EXCEPT ![node.val[2]].attrs = DictSet(Dict(@), final, value)[2]])

(* after the copy: the path is unpacked into subpath and final (the empty  *)
(* path cannot be unpacked: ValueError), then the descent                  *)
replace_in(c, path, value) ==
    IF path = <<>> THEN Fail("ValueError", <<>>, c.heap)
    ELSE replace_final(c.val,
                       replace_descend(c.val, SubSeq(path, 1, Len(path) - 1), c.heap),
                       path[Len(path)], value, c.heap)

nested_dict_replace(d, path, value, inplace, h) ==
    replace_in(IF inplace THEN Done(d, h) ELSE replace_copy(d, h), path, value)

----------------------------------------------------------------------------
(* SpecDict: one call of nested_dict_get or nested_dict_replace on a       *)
(* config; arg.config is the config by value as it is before the call and  *)
(* arg.d the dict object the caller passes                                 *)

DictPaths == Paths \cup {<<>>, <<"b", "a">>}

InitDict ==
    /\ pc = "call" /\ ret = None /\ classes = <<>>
    /\ to_check = <<>> /\ checked = {}
    /\ \E config \in Configs : \E path \in DictPaths :
          /\ heap = new_dict(config, <<>>).heap
          /\ \/ \E leaf \in {"None", "True", "False"} :
                   arg = [fn |-> "nested_dict_get", config |-> config,
                          d |-> new_dict(config, <<>>).val, path |-> path,
                          leaf |-> leaf]
             \/ \E inplace \in BOOLEAN : \E value \in {PyInt(1), PyInt(7)} :
                   arg = [fn |-> "nested_dict_replace", config |-> config,
                          d |-> new_dict(config, <<>>).val, path |-> path,
                          value |-> value, inplace |-> inplace]

CallGet ==
    /\ pc = "call" /\ arg.fn = "nested_dict_get"
    /\ ret' = nested_dict_get(arg.d, arg.path, arg.leaf, heap)
    /\ pc' = "done"
    /\ UNCHANGED <<arg, heap, classes, to_check, checked>>

CallReplace ==
    /\ pc = "call" /\ arg.fn = "nested_dict_replace"
    /\ LET r == nested_dict_replace(arg.d, arg.path, arg.value, arg.inplace, heap)
       IN  /\ ret' = [exc |-> r.exc, val |-> r.val]
           /\ heap' = r.heap
    /\ pc' = "done"
    /\ UNCHANGED <<arg, classes, to_check, checked>>

NextDict == CallGet \/ CallReplace

SpecDict == InitDict /\ [][NextDict]_vars

----------------------------------------------------------------------------
(* SpecAlias: a combinator called on lists of dict objects, and then a     *)
(* replacement in place in one of the configs it returned                  *)

(* the dict objects of a list of configs, and of several lists *)
RECURSIVE new_dicts(_, _), new_lists(_, _)
new_dicts(configs, h) ==
    IF configs = <<>> THEN Done(<<>>, h)
    ELSE LET r1 == new_dict(Head(configs), h)
             r2 == new_dicts(Tail(configs), r1.heap)
         IN  Done(<<r1.val>> \o r2.val, r2.heap)

new_lists(lists, h) ==
    IF lists = <<>> THEN Done(<<>>, h)
    ELSE LET r1 == new_dicts(Head(lists), h)
             r2 == new_lists(Tail(lists), r1.heap)
         IN  Done(<<r1.val>> \o r2.val, r2.heap)

(* the combinator on the configs as they are when it is called *)
combinator_call(fn, configs) ==
    CASE fn = "config_product" -> config_product(configs)
      [] fn = "config_zip" -> config_zip(configs)
      [] fn = "config_chain" -> config_chain(configs)
      [] fn = "config_roundrobin" -> config_roundrobin(configs)

(* the objects that config_combine returns.  With a combiner every config  *)
(* is the result of merge_nested_dicts, which builds new dicts from the    *)
(* leaves; with a chainer res is the list of the elements of the inputs,   *)
(* the dict objects that the caller passed.                                *)
combinator_objects(fn, objects, r, h) ==
    IF r.exc # "none" THEN Fail(r.exc, r.val, h)
    ELSE IF fn = "config_chain" THEN Done(chainer_apply("itertools.chain", objects), h)
    ELSE IF fn = "config_roundrobin"
    THEN Done(chainer_apply("more_itertools.roundrobin", objects), h)
    ELSE new_dicts(r.val, h)

AliasConfigs ==
    {Dict(<< <<"a", PyInt(1)>> >>),
     Dict(<< <<"b", PyInt(1)>> >>),
     Dict(<< <<"a", Dict(<< <<"a", PyInt(1)>> >>)>> >>),
     Dict(<< <<"a", Dict(<< <<"b", PyInt(1)>> >>)>> >>)}

AliasLists == SeqsUpTo(SeqsUpTo(AliasConfigs, 2) \ {<<>>}, 2) \ {<<>>}

InitAlias ==
    /\ pc = "call" /\ ret = None /\ classes = <<>>
    /\ to_check = <<>> /\ checked = {}
    /\ \E configs \in AliasLists :
       \E fn \in {"config_product", "config_zip", "config_chain", "config_roundrobin"} :
          /\ heap = new_lists(configs, <<>>).heap
          /\ arg = [fn |-> fn, configs |-> configs,
                    objects |-> new_lists(configs, <<>>).val]

CallCombinator ==
    /\ pc = "call"
    /\ arg.fn \in {"config_product", "config_zip", "config_chain", "config_roundrobin"}
    /\ LET r == combinator_objects(arg.fn, arg.objects,
                                   combinator_call(arg.fn, arg.configs), heap)
       IN  /\ ret' = [exc |-> r.exc, val |-> r.val]
           /\ heap' = r.heap
    /\ pc' = "done"
    /\ UNCHANGED <<arg, classes, to_check, checked>>

(* the caller replaces a value in one of the returned configs:             *)
(* nested_dict_replace(config, path, 7, inplace=True)                      *)
ReplaceInPlace ==
    /\ pc = "done" /\ ret.exc = "none"
    /\ arg.fn \in {"config_product", "config_zip", "config_chain", "config_roundrobin"}
    /\ \E i \in 1..Len(ret.val) : \E path \in {<<"a">>, <<"b">>, <<"a", "a">>, <<"a", "b">>} :
          LET r == nested_dict_replace(ret.val[i], path, PyInt(7), TRUE, heap)
          IN  /\ r.exc = "none"
              /\ heap' = r.heap
    /\ pc' = "modified"
    /\ UNCHANGED <<arg, ret, classes, to_check, checked>>

NextAlias == CallCombinator \/ ReplaceInPlace

SpecAlias == InitAlias /\ [][NextAlias]_vars

----------------------------------------------------------------------------
(* SpecArgs: initialize(Model, configs, constant=..., default=...) called  *)
(* with dict objects; arg.configs, arg.constant and arg.default are the    *)
(* arguments by value as they are before the call, arg.objects the objects *)

(* flattened, nested, and both forms in one mapping, in either order *)
ArgOverlays ==
    {PyNone,
     Dict(<< <<"sub.x", PyInt(1)>> >>),
     Dict(<< <<"sub", Dict(<< <<"x", PyInt(1)>> >>)>> >>),
     Dict(<< <<"sub", EmptyDict>>, <<"sub.x", PyInt(1)>> >>),
     Dict(<< <<"sub.x", PyInt(1)>>, <<"sub", EmptyDict>> >>),
     Dict(<< <<"sub", Dict(<< <<"x", PyInt(1)>> >>)>>, <<"sub.y", PyInt(2)>> >>),
     Dict(<< <<"sub", Dict(<< <<"x", PyInt(1)>> >>)>>, <<"sub.x", PyInt(2)>> >>),
     Dict(<< <<"sub", EmptyDict>>, <<"sub.x", DefaultValue>> >>),
     Dict(<< <<"x", PyInt(2)>>, <<"sub", EmptyDict>>, <<"sub.", PyInt(1)>> >>)}

ArgEntries ==
    {Dict(<< <<"x", PyInt(1)>> >>),
     Dict(<< <<"x", PyInt(1)>>, <<"sub", Dict(<< <<"x", DefaultValue>> >>)>> >>),
     Dict(<< <<"x", DefaultValue>>, <<"sub", EmptyDict>> >>)}

(* the dict objects of the arguments, made one after the other *)
ArgObjects(configs, constant, default) ==
    LET c == new_dicts(configs, InitHeap)
        k == new_dict(constant, c.heap)
        d == new_dict(default, k.heap)
    IN  [objects |-> [configs |-> c.val, constant |-> k.val, default |-> d.val],
         heap |-> d.heap]

InitArgs ==
    /\ pc = "call" /\ ret = None /\ classes = InitClasses
    /\ to_check = <<>> /\ checked = {}
    /\ \E configs \in SeqsUpTo(ArgEntries, MaxLen) \ {<<>>} :
       \E constant \in ArgOverlays : \E default \in ArgOverlays :
          /\ heap = ArgObjects(configs, constant, default).heap
          /\ arg = [fn |-> "initialize", model |-> Class("Model"), configs |-> configs,
                    constant |-> constant, default |-> default, unhashable |-> "warn",
                    at |-> PyNone, to |-> PyNone,
                    objects |-> ArgObjects(configs, constant, default).objects]

NextArgs ==
    \/ CallInitialize
    \/ CheckModelStep
    \/ CheckModelReturn
    \/ InitializeOverlay
    \/ InitializeConstruct

SpecArgs == InitArgs /\ [][NextArgs]_vars

----------------------------------------------------------------------------
(* Claims about the nested-dictionary engine (SpecNested) *)

StrictPrefix(p, q) == Len(p) < Len(q) /\ SubSeq(q, 1, Len(p)) = p

(* two of the pairs have the same path, or the path of one is a strict     *)
(* prefix of the path of another                                           *)
PathsCollide(items) ==
    \E i, j \in 1..Len(items) :
        /\ i # j
        /\ \/ items[i][1] = items[j][1]
           \/ StrictPrefix(items[i][1], items[j][1])

(* the pairs a call is given: the items themselves, or the chained items   *)
(* of the configs handed to merge_nested_dicts                             *)
SuppliedItems ==
    IF arg.fn = "merge_nested_dicts" THEN ChainItems(arg.dicts) ELSE arg.items

(* C2: nested_dict_from_items, and merge_nested_dicts without overwrite,   *)
(* raise the conflict error (ValueError) if and only if two of the pairs   *)
(* have the same full path or the path of one is a strict prefix of the    *)
(* path of another, in either order of supply and whether or not the two   *)
(* values are equal; otherwise the call returns.                           *)
C2_ConflictIff ==
    (pc = "done" /\ arg.fn \in {"nested_dict_from_items", "merge_nested_dicts"})
    => /\ ret.exc = "ValueError" <=> PathsCollide(SuppliedItems)
       /\ ret.exc = "none" <=> ~PathsCollide(SuppliedItems)

(* a child supplied first, an unrelated pair, then its parent with the     *)
(* same value: the call raised                                             *)
C2_Witness ==
    /\ pc = "done" /\ arg.fn = "nested_dict_from_items"
    /\ Len(arg.items) = 3
    /\ arg.items[1][1] = <<"a", "b">>
    /\ arg.items[2][1] = <<"b">>
    /\ arg.items[3][1] = <<"a">>
    /\ arg.items[1][2] = arg.items[3][2]
    /\ ret.exc = "ValueError"

(* a config none of whose sub-dicts is empty (the config itself may be)    *)
RECURSIVE NoEmptySub(_)
NoEmptySub(d) ==
    \A i \in 1..Len(d[2]) :
        IsDict(d[2][i][2]) => (d[2][i][2] # EmptyDict /\ NoEmptySub(d[2][i][2]))

(* C3 as stated: nested_dict_from_items(nested_dict_items(c)) == c for     *)
(* every config c, configs with an empty sub-mapping included.             *)
C3_RoundTripAll ==
    (pc = "done" /\ arg.fn = "nested_dict_items")
    => (ret.exc = "none" /\ PyEq(ret.val, arg.dicts[1]))

(* C3 amended: nested_dict_from_items(nested_dict_items(c)) == c for every *)
(* config c none of whose sub-mappings is empty, the empty config included *)
C3_RoundTrip ==
    (pc = "done" /\ arg.fn = "nested_dict_items" /\ NoEmptySub(arg.dicts[1]))
    => (ret.exc = "none" /\ PyEq(ret.val, arg.dicts[1]))

(* a config with a leaf below a sub-dict and a second top-level key came   *)
(* back equal                                                              *)
C3_Witness ==
    /\ pc = "done" /\ arg.fn = "nested_dict_items"
    /\ NoEmptySub(arg.dicts[1])
    /\ Size(arg.dicts[1]) = 3 /\ Len(arg.dicts[1][2]) = 2
    /\ PyEq(ret.val, arg.dicts[1])

----------------------------------------------------------------------------
(* Claims about the combinators (SpecCombine) *)

ItemPaths(config) ==
    {nested_dict_items(config)[i][1] : i \in 1..Len(nested_dict_items(config))}

Comparable(p, q) == p = q \/ StrictPrefix(p, q) \/ StrictPrefix(q, p)

(* no path of an entry of one list is equal to, or a prefix of, a path of  *)
(* an entry of another list                                                *)
PairwiseDisjoint(configs) ==
    \A k, l \in 1..Len(configs) : k # l =>
        \A i \in 1..Len(configs[k]), j \in 1..Len(configs[l]) :
            \A p \in ItemPaths(configs[k][i]), q \in ItemPaths(configs[l][j]) :
                ~Comparable(p, q)

RECURSIVE ProductOfLens(_)
ProductOfLens(configs) ==
    IF configs = <<>> THEN 1 ELSE Len(Head(configs)) * ProductOfLens(Tail(configs))

(* position (from 1) of the index tuple idx in nested-loop order with the  *)
(* rightmost input varying fastest                                         *)
RECURSIVE RowMajor(_, _)
RowMajor(idx, configs) ==
    IF idx = <<>> THEN 1
    ELSE (Head(idx) - 1) * ProductOfLens(Tail(configs))
         + RowMajor(Tail(idx), Tail(configs))

IndexTuples(configs) ==
    {idx \in [1..Len(configs) -> 1..MaxLen + 1] :
        \A k \in 1..Len(configs) : idx[k] <= Len(configs[k])}

(* C4: over lists with pairwise disjoint paths config_product returns one  *)
(* merged config per combination, rightmost input varying fastest: the     *)
(* result has length len(c_1)*...*len(c_n), its entry at row-major index   *)
(* (i_1..i_n) equals merge_nested_dicts(c_1[i_1], ..., c_n[i_n]), and it   *)
(* is empty when some input list is empty.                                 *)
C4_ProductRowMajor ==
    (pc = "done" /\ arg.fn = "config_product" /\ PairwiseDisjoint(arg.configs))
    => /\ ret.exc = "none"
       /\ Len(ret.val) = ProductOfLens(arg.configs)
       /\ \A idx \in IndexTuples(arg.configs) :
             PyEq(ret.val[RowMajor(idx, arg.configs)],
                  merge_nested_dicts(
                      [k \in 1..Len(idx) |-> arg.configs[k][idx[k]]], FALSE).val)
       /\ (\E k \in 1..Len(arg.configs) : arg.configs[k] = <<>>) => ret.val = <<>>

(* the product of two lists of two entries each, at disjoint paths *)
C4_Witness ==
    /\ pc = "done" /\ arg.fn = "config_product"
    /\ Len(arg.configs) = 2 /\ PairwiseDisjoint(arg.configs)
    /\ Len(arg.configs[1]) = 2 /\ Len(arg.configs[2]) = 2
    /\ arg.configs[1][1] # arg.configs[1][2]
    /\ arg.configs[2][1] # arg.configs[2][2]
    /\ ret.exc = "none" /\ Len(ret.val) = 4

----------------------------------------------------------------------------
(* Claims about check_unique (SpecUnique) *)

Projections == 
    LET stream == flatten_models(arg.models_)
    IN  [i \in 1..Len(stream) |-> as_hashable(stream[i], heap, classes)]

HasDuplicate ==
    \E i, j \in 1..Len(Projections) : i < j /\ Projections[i] = Projections[j]

(* C5: check_unique returns True if and only if no two elements of the     *)
(* flattened stream have equal as_hashable projections; when two have, it  *)
(* raises the duplicate error (ValueError) if raise_exception and returns  *)
(* False if not; it never reports a duplicate for elements whose           *)
(* projections all differ.                                                 *)
C5_UniqueIff ==
    (pc = "done" /\ arg.fn = "check_unique")
    => /\ ret = Ok(TRUE) <=> ~HasDuplicate
       /\ (HasDuplicate /\ arg.raise_exception) => ret.exc = "ValueError"
       /\ (HasDuplicate /\ ~arg.raise_exception) => ret = Ok(FALSE)

----------------------------------------------------------------------------
(* Claims about check_model (SpecCheckModel) *)

(* the classes an annotation names, directly or as a member of a union *)
AnnotationClasses(annotation) ==
    CASE annotation[1] = "class" -> {annotation[2]}
      [] annotation[1] \in {"UnionType", "typing.Union"} ->
            {annotation[2][i][2] : i \in {j \in 1..Len(annotation[2]) :
                                             annotation[2][j][1] = "class"}}
      [] OTHER -> {}

RECURSIVE ReachableFrom(_)
ReachableFrom(S) ==
    LET more == S \cup UNION { UNION {AnnotationClasses(classes[c].fields[i].annotation) :
                                        i \in 1..Len(classes[c].fields)} : c \in S }
    IN  IF more = S THEN S ELSE ReachableFrom(more)

ReachableClasses == ReachableFrom({ClassOf(arg.model, heap)})

(* C6: with the default handling of unhashable types, check_model raises   *)
(* the configuration error (ValueError) if and only if some class          *)
(* reachable from the root through field annotations, directly or as a     *)
(* member of a union, lacks extra='forbid' or allows arbitrary types;      *)
(* also when two reachable classes have the same name.                     *)
C6_FailsIffNonStrictReachable ==
    (pc = "done" /\ arg.fn = "check_model" /\ arg.unhashable = "warn")
    => (ret.exc = "ValueError"
        <=> \E c \in ReachableClasses : ~check_model_config_ok(classes[c]))

(* C21 as stated: check_model raises ValueError whenever some reachable    *)
(* class does not declare validate_assignment.                             *)
C21_FailsWithoutValidateAssignment ==
    (pc = "done" /\ arg.fn = "check_model"
     /\ \E c \in ReachableClasses : ~classes[c].validate_assignment)
    => ret.exc = "ValueError"

(* C21 amended: check_model does not look at validate_assignment.  A       *)
(* schema whose reachable classes all have extra='forbid' and no           *)
(* arbitrary types is accepted (unhashable types only warn), whether or    *)
(* not its classes declare validate_assignment; and when check_model       *)
(* raises, some reachable class lacks extra='forbid' or allows arbitrary   *)
(* types.                                                                  *)
C21_ValidateAssignmentNotChecked ==
    (pc = "done" /\ arg.fn = "check_model" /\ arg.unhashable = "warn")
    => /\ (\A c \in ReachableClasses :
              classes[c].extra = "forbid" /\ ~classes[c].arbitrary_types_allowed)
          => ret.exc = "none"
       /\ ret.exc # "none"
          => \E c \in ReachableClasses :
                classes[c].extra # "forbid" \/ classes[c].arbitrary_types_allowed

(* a schema accepted although a class nested in it does not declare        *)
(* validate_assignment                                                     *)
C21_Witness ==
    /\ pc = "done" /\ arg.fn = "check_model" /\ ret.exc = "none"
    /\ \E c \in ReachableClasses \ {arg.model[2]} : ~classes[c].validate_assignment

(* a step of the loop that puts the fields of a class on the work-list:   *)
(* one entry is popped, and every class has a field                        *)
EnqueuesFields ==
    /\ pc = "check_model" /\ to_check # <<>>
    /\ Len(to_check') >= Len(to_check)

(* C22: check_model terminates on every finite schema graph, with          *)
(* self-referential, mutually recursive and shared classes: it returns or  *)
(* raises, and the work-list is empty when it returns.  The fields of a    *)
(* class are put on the work-list only for a name that is not in checked,  *)
(* which is then added to checked and never removed, so at most once for   *)
(* each name.                                                              *)
C22_CheckModelTerminates ==
    /\ <>(pc = "done" /\ (ret.exc = "none" => to_check = <<>>))
    /\ [][/\ pc = "check_model" => checked \subseteq checked'
          /\ EnqueuesFields
                => LET model == to_check[Len(to_check)][2]
                   IN  /\ IsModel(model)
                       /\ classes[ClassOf(model, heap)].name \notin checked
                       /\ classes[ClassOf(model, heap)].name \in checked']_vars

(* check_model has returned for a schema in which the root and a second    *)
(* class refer to each other, and a third class, a member of a union of    *)
(* the root, refers to the second one as well                              *)
C22_Witness ==
    /\ pc = "done" /\ arg.fn = "check_model" /\ ret.exc = "none"
    /\ classes.c1.fields[2].annotation = UnionType(<<Class("c2"), Class("c3")>>)
    /\ classes.c2.fields[1].annotation = Class("c1")
    /\ classes.c3.fields[1].annotation = Class("c2")
    /\ Cardinality(checked) = 3

(* the keyword arguments have a key that is no field of the class called *)
HasExtraKey ==
    \E i \in 1..Len(arg.data) :
       arg.data[i][1] \notin FieldNames(classes[arg.model[2]].fields)

(* C25: calling a BaseModel with a key that is no declared field raises a  *)
(* validation error (a ValueError), whatever the value of the key is, a    *)
(* mapping included.                                                       *)
C25_ExtraKeyForbidden ==
    (pc = "done" /\ arg.fn = "construct" /\ HasExtraKey)
    => ret.exc = "ValidationError"

----------------------------------------------------------------------------
(* Claims about normalize_path (SpecPath) *)

(* a key of the grammar [A-Za-z_][A-Za-z0-9_]* *)
IsGrammarKey(k) ==
    /\ k # <<>> /\ IsKeyStart(k[1])
    /\ \A i \in 1..Len(k) : IsKeyChar(k[i])

(* the whole string is key(.key)*: it is not empty, it neither begins nor  *)
(* ends with a dot, no dot follows a dot, a key begins after every dot,    *)
(* and every other character is a character of a key                       *)
MatchesPathGrammar(c) ==
    /\ c # <<>> /\ c[1] # "." /\ c[Len(c)] # "."
    /\ \A i \in 1..Len(c) :
          IF c[i] = "." THEN i < Len(c) => c[i + 1] # "."
          ELSE /\ IsKeyChar(c[i])
               /\ (i = 1 \/ c[i - 1] = ".") => IsKeyStart(c[i])

(* the keys of a path joined with dots *)
RECURSIVE JoinDots(_)
JoinDots(keys) ==
    IF keys = <<>> THEN <<>>
    ELSE IF Len(keys) = 1 THEN keys[1]
    ELSE keys[1] \o <<".">> \o JoinDots(Tail(keys))

(* C23: normalize_path on a string returns exactly when the whole string   *)
(* matches key(.key)* and raises ValueError otherwise.  For a valid        *)
(* string the result is that of normalize_path on the tuple of its parts   *)
(* between the dots: keys of the grammar that, joined with dots, give the  *)
(* string.  With check_keys a tuple is accepted exactly when each of its   *)
(* elements is a key of the grammar; without, always.                      *)
C23_NormalizePathGrammar ==
    (pc = "done" /\ arg.fn = "normalize_path")
    => IF arg.path[1] = "str"
       THEN /\ ret.exc = (IF MatchesPathGrammar(arg.path[2]) THEN "none" ELSE "ValueError")
            /\ ret.exc = "none"
               => /\ JoinDots(ret.val) = arg.path[2]
                  /\ \A i \in 1..Len(ret.val) : IsGrammarKey(ret.val[i])
                  /\ ret = normalize_path_chars(<<"tuple", ret.val>>, TRUE)
       ELSE /\ ret.exc = "none"
               <=> (arg.check_keys
                      => \A i \in 1..Len(arg.path[2]) : IsGrammarKey(arg.path[2][i]))
            /\ ret.exc # "none" => ret.exc = "ValueError"
            /\ ret.exc = "none" => ret.val = arg.path[2]

(* a string of two keys has been split *)
C23_Witness ==
    /\ pc = "done" /\ arg.fn = "normalize_path" /\ arg.path[1] = "str"
    /\ ret.exc = "none" /\ Len(ret.val) = 2 /\ Len(ret.val[1]) = 2

----------------------------------------------------------------------------
(* Claims about the safe-union validator (SpecUnion) *)

UnionField == classes[arg.model[2]].fields[1]

(* the member models of the union that the mapping validates against *)
ValidAlternatives ==
    LET members == UnionField.annotation[2]
    IN  {j \in 1..Len(members) :
            /\ members[j][1] = "class"
            /\ construct(members[j][2], arg.data[1][2][2], UnionHeap, classes).exc
                  = "none"}

MappingForUnion ==
    /\ pc = "done" /\ arg.fn = "construct"
    /\ arg.data # <<>> /\ IsDict(arg.data[1][2])
    /\ UnionField.annotation[1] \in {"UnionType", "typing.Union"}

(* C7: when the raw value of a union field without discriminator is a      *)
(* mapping, the construction fails with the ambiguous-union error if the   *)
(* mapping validates against two or more member models, and succeeds with  *)
(* an instance of the member in the field if it validates against exactly  *)
(* one; a field with a discriminator never gets the ambiguous-union error. *)
C7_SafeUnion ==
    MappingForUnion =>
       /\ (UnionField.discriminator = 0 /\ Cardinality(ValidAlternatives) >= 2)
             => ret = [exc |-> "ValidationError", val |-> "unsafe_union_error"]
       /\ (UnionField.discriminator = 0 /\ Cardinality(ValidAlternatives) = 1)
             => /\ ret.exc = "none"
                /\ \E j \in ValidAlternatives :
                      heap[heap[ret.val[2]].attrs[1][2][2]].cls
                         = UnionField.annotation[2][j][2]
       /\ UnionField.discriminator # 0 => ret.val # "unsafe_union_error"

----------------------------------------------------------------------------
(* Claims about initialize (SpecInit, SpecCopy) *)

Absent == <<"absent", 0>>

(* the (path, value) leaves of a config *)
Leaves(config) ==
    {nested_dict_items(config)[i] : i \in 1..Len(nested_dict_items(config))}

(* the leaves of constant or default, whose keys may be dotted and whose   *)
(* values may be nested; a top-level placeholder of default is no leaf     *)
OverlayLeaves(d, skip_default) ==
    IF ~IsDict(d) THEN {}
    ELSE UNION { IF IsDict(d[2][i][2])
                 THEN {<<StrSplit[d[2][i][1]] \o l[1], l[2]>> : l \in Leaves(d[2][i][2])}
                 ELSE IF skip_default /\ d[2][i][2] = DefaultValue THEN {}
                 ELSE {<<StrSplit[d[2][i][1]], d[2][i][2]>>} :
                 i \in 1..Len(d[2]) }

ConstantLeaves == OverlayLeaves(arg.constant, FALSE)
DefaultLeaves == OverlayLeaves(arg.default, TRUE)

(* what a config holds at a path *)
RECURSIVE ValueAt(_, _)
ValueAt(v, path) ==
    IF path = <<>> THEN v
    ELSE IF IsDict(v) /\ DictHas(v, Head(path))
    THEN ValueAt(DictGet(v, Head(path)), Tail(path))
    ELSE Absent

(* what a model holds at a path of attributes *)
RECURSIVE AttrAt(_, _, _)
AttrAt(v, path, h) ==
    IF path = <<>> THEN v
    ELSE IF IsRef(v) /\ DictHas(Dict(h[v[2]].attrs), Head(path))
    THEN AttrAt(DictGet(Dict(h[v[2]].attrs), Head(path)), Tail(path), h)
    ELSE Absent

(* a value with the instances it refers to replaced by their contents *)
RECURSIVE DeepValue(_, _)
DeepValue(v, h) ==
    IF IsRef(v)
    THEN <<"instance", h[v[2]].cls,
           [i \in 1..Len(h[v[2]].attrs) |->
               <<h[v[2]].attrs[i][1], DeepValue(h[v[2]].attrs[i][2], h)>>]>>
    ELSE v

(* the default the schema declares for the field at a path *)
RECURSIVE SchemaDefault(_, _)
SchemaDefault(c, path) ==
    LET info == FieldNamed(classes[c].fields, Head(path))
    IN  IF Tail(path) = <<>> THEN DeepValue(info.default, heap)
        ELSE SchemaDefault(info.annotation[2], Tail(path))

DefaultTouches(p) == \E d \in DefaultLeaves : Comparable(d[1], p)

InitializeReturned == arg.fn = "initialize" /\ pc = "done" /\ ret.exc = "none"

(* The statement of C8 read for every call: whatever default is, a field   *)
(* bound to the placeholder holds the declared default of the schema.      *)
C8_PlaceholderAlwaysSchemaDefault ==
    InitializeReturned =>
       /\ Len(ret.val) = Len(arg.configs)
       /\ \A i \in 1..Len(ret.val) : \A l \in Leaves(arg.configs[i]) :
             IF l[2] = DefaultValue
             THEN DeepValue(AttrAt(ret.val[i], l[1], heap), heap)
                     = SchemaDefault(arg.model[2], l[1])
             ELSE AttrAt(ret.val[i], l[1], heap) = l[2]

(* C8: initialize removes the DefaultValue leaves of every entry before    *)
(* the construction; the i-th model holds for a field bound to a concrete  *)
(* value that value, and for a field bound to DefaultValue the default the *)
(* schema declares, unless default defines a value at, above or below the  *)
(* path: the value of default at the path is then what the model holds.    *)
(* There are as many models as entries, in their order.                    *)
C8_PlaceholderPruned ==
    /\ (arg.fn = "initialize" /\ pc = "construct") =>
          /\ Len(ret.val) = Len(arg.configs)
          /\ \A i \in 1..Len(ret.val) : \A l \in Leaves(arg.configs[i]) :
                (l[2] = DefaultValue /\ ~DefaultTouches(l[1]))
                   => ValueAt(ret.val[i], l[1]) = Absent
    /\ InitializeReturned =>
          /\ Len(ret.val) = Len(arg.configs)
          /\ \A i \in 1..Len(ret.val) : \A l \in Leaves(arg.configs[i]) :
                /\ l[2] # DefaultValue => AttrAt(ret.val[i], l[1], heap) = l[2]
                /\ (l[2] = DefaultValue /\ ~DefaultTouches(l[1]))
                      => DeepValue(AttrAt(ret.val[i], l[1], heap), heap)
                            = SchemaDefault(arg.model[2], l[1])
                /\ \A d \in DefaultLeaves :
                      (l[2] = DefaultValue /\ d[1] = l[1])
                         => AttrAt(ret.val[i], l[1], heap) = d[2]

(* two models returned: the first entry binds x to a value and sub.x to    *)
(* the placeholder, and the model holds the declared default 5 of sub.x    *)
C8_Witness ==
    /\ InitializeReturned /\ Len(ret.val) = 2
    /\ <<(<<"sub", "x">>), DefaultValue>> \in Leaves(arg.configs[1])
    /\ <<(<<"x">>), PyInt(1)>> \in Leaves(arg.configs[1])
    /\ ~DefaultTouches(<<"sub", "x">>)
    /\ AttrAt(ret.val[1], <<"sub", "x">>, heap) = PyInt(5)

(* some entry and constant define values at equal or prefix-related paths *)
Collision ==
    \E i \in 1..Len(arg.configs) : \E l \in Leaves(arg.configs[i]) :
       \E k \in ConstantLeaves : Comparable(l[1], k[1])

(* C9: initialize with constant raises the conflict error (ValueError)     *)
(* whenever an entry and constant define values at the same path or at     *)
(* paths one of which is a prefix of the other, whatever the two values    *)
(* are (equal, or DefaultValue); without collision every model returned    *)
(* holds the concrete values of constant.                                  *)
C9_ConstantConflict ==
    (arg.fn = "initialize" /\ IsDict(arg.constant) /\ pc \in {"construct", "done"})
    => /\ Collision => (pc = "done" /\ ret.exc = "ValueError")
       /\ (~Collision /\ InitializeReturned)
             => \A i \in 1..Len(ret.val) : \A k \in ConstantLeaves :
                   k[2] # DefaultValue => AttrAt(ret.val[i], k[1], heap) = k[2]

(* the entry binds sub.x to the placeholder, constant binds sub: the call  *)
(* has raised                                                              *)
C9_Witness ==
    /\ arg.fn = "initialize" /\ pc = "done" /\ ret.exc = "ValueError"
    /\ \E i \in 1..Len(arg.configs) : \E l \in Leaves(arg.configs[i]) :
       \E k \in ConstantLeaves :
          StrictPrefix(k[1], l[1]) /\ l[2] = DefaultValue

(* C10: in the configs the models are constructed from, a path that the    *)
(* entry binds to a concrete value holds that value, and a path at which   *)
(* default has a concrete value holds the value of default when the entry  *)
(* (with constant) binds no concrete value at it, above it or below it;    *)
(* there is one such config per entry.                                     *)
C10_DefaultOverlay ==
    (arg.fn = "initialize" /\ IsDict(arg.default) /\ pc = "construct")
    => /\ Len(ret.val) = Len(arg.configs)
       /\ \A i \in 1..Len(ret.val) :
             /\ \A l \in Leaves(arg.configs[i]) :
                   l[2] # DefaultValue => ValueAt(ret.val[i], l[1]) = l[2]
             /\ \A d \in DefaultLeaves :
                   (/\ d[2] # DefaultValue
                    /\ \A l \in Leaves(arg.configs[i]) \cup ConstantLeaves :
                          l[2] = DefaultValue \/ ~Comparable(l[1], d[1]))
                   => ValueAt(ret.val[i], d[1]) = d[2]

(* default has a value at x; one entry binds x to the placeholder and      *)
(* another binds it to a value                                             *)
C10_Witness ==
    /\ arg.fn = "initialize" /\ pc = "construct"
    /\ <<(<<"x">>), PyInt(3)>> \in DefaultLeaves
    /\ \E i, j \in 1..Len(arg.configs) :
          /\ <<(<<"x">>), DefaultValue>> \in Leaves(arg.configs[i])
          /\ <<(<<"x">>), PyInt(1)>> \in Leaves(arg.configs[j])
          /\ ValueAt(ret.val[i], <<"x">>) = PyInt(3)
          /\ ValueAt(ret.val[j], <<"x">>) = PyInt(1)

(* C1: no two models that initialize returns share a nested model: an      *)
(* assignment to sub.x of one of them changes no other of them.            *)
C1_NoSharedState ==
    [][(pc = "done" /\ pc' = "mutated")
       => \A i, j \in 1..Len(ret.val) :
             i # j => ~(/\ DeepValue(ret.val[i], heap') # DeepValue(ret.val[i], heap)
                        /\ DeepValue(ret.val[j], heap') # DeepValue(ret.val[j], heap))]_vars

(* default with its DefaultValue leaves removed, at every depth *)
RECURSIVE WithoutPlaceholders(_)
WithoutPlaceholders(d) ==
    LET kept == SelectSeq(d[2], LAMBDA it : it[2] # DefaultValue)
    IN  Dict([i \in 1..Len(kept) |->
                <<kept[i][1], IF IsDict(kept[i][2])
                              THEN WithoutPlaceholders(kept[i][2])
                              ELSE kept[i][2]>>])

(* what a caller sees of a result: the exception, or the models by value *)
Observable(r, h) ==
    IF r.exc # "none" THEN [exc |-> r.exc, val |-> <<>>]
    ELSE [exc |-> "none", val |-> [i \in 1..Len(r.val) |-> DeepValue(r.val[i], h)]]

(* what initialize gives for the model of the call with other arguments *)
InitializeOutcome(configs, constant, default) ==
    LET o == initialize_overlay(configs, constant, default)
        r == initialize_models(arg.model[2], o.val, InitHeap, classes)
    IN  IF o.exc # "none" THEN Observable(o, InitHeap) ELSE Observable(r, r.heap)

(* C11: a DefaultValue leaf of default, at any depth, is a no-op: the      *)
(* result of initialize is the result of the same call with the            *)
(* DefaultValue leaves removed from default.                               *)
C11_DefaultPlaceholderNoOp ==
    (arg.fn = "initialize" /\ pc = "done" /\ IsDict(arg.default))
    => Observable(ret, heap)
          = InitializeOutcome(arg.configs, arg.constant,
                              WithoutPlaceholders(arg.default))

----------------------------------------------------------------------------
(* Claims about initialize with at (SpecAt) *)

(* the leaves of a config at the paths outside p, the instances by value *)
LeavesOutside(config, p, h) ==
    {<<l[1], DeepValue(l[2], h)>> : l \in {k \in Leaves(config) : ~Comparable(k[1], p)}}

(* the instance that the schema of the call makes from a sub-config, by    *)
(* value, or the exception of its construction                             *)
InstanceFrom(sub) ==
    LET c == construct(arg.model[2], sub[2], InitHeap, classes)
    IN  IF c.exc # "none" THEN <<"raises", c.exc>> ELSE DeepValue(c.val, c.heap)

(* p resolves to a value that is no mapping *)
ResolvesToLeaf(config, p) ==
    ValueAt(config, p) # Absent /\ ~IsDict(ValueAt(config, p))

(* C20: initialize with at=p returns one config per input entry, in       *)
(* order, that equals the pruned, overlay-merged entry at every path       *)
(* outside p and holds at p the instance of the schema made from the       *)
(* sub-config of the entry at p; so it returns when every entry has at p   *)
(* a sub-config, placeholders apart, from which the schema can be made.    *)
(* It raises ValueError when p resolves to a leaf in some entry, and       *)
(* ValueError when both at and to are given.                               *)
C20_InitializeAt ==
    (arg.fn = "initialize" /\ arg.at # PyNone /\ pc = "done")
    => LET o == initialize_overlay(arg.configs, arg.constant, arg.default)
       IN  /\ arg.to # PyNone => ret.exc = "ValueError"
           /\ (arg.to = PyNone /\ o.exc = "none")
              => /\ (\E i \in 1..Len(o.val) : ResolvesToLeaf(o.val[i], arg.at))
                       => ret.exc = "ValueError"
                 /\ ret.exc = "none"
                       => /\ Len(ret.val) = Len(arg.configs)
                          /\ \A i \in 1..Len(ret.val) :
                                /\ LeavesOutside(ret.val[i], arg.at, heap)
                                      = LeavesOutside(o.val[i], arg.at, InitHeap)
                                /\ IsRef(ValueAt(ret.val[i], arg.at))
                                /\ DeepValue(ValueAt(ret.val[i], arg.at), heap)
                                      = InstanceFrom(ValueAt(o.val[i], arg.at))
           /\ (/\ arg.to = PyNone /\ arg.constant = PyNone /\ arg.default = PyNone
               /\ \A i \in 1..Len(arg.configs) :
                     LET sub == ValueAt(WithoutPlaceholders(arg.configs[i]), arg.at)
                     IN  IsDict(sub) /\ InstanceFrom(sub)[1] # "raises")
              => /\ ret.exc = "none"
                 /\ \A i \in 1..Len(arg.configs) :
                       DeepValue(ValueAt(ret.val[i], arg.at), heap)
                          = InstanceFrom(ValueAt(WithoutPlaceholders(arg.configs[i]), arg.at))

----------------------------------------------------------------------------
(* Claims about config_zip, config_chain, config_roundrobin and the        *)
(* chainer mode of config_combine (SpecChain)                              *)

EqualLengths(configs) ==
    \A k, l \in 1..Len(configs) : Len(configs[k]) = Len(configs[l])

(* the entries at position n of two of the inputs have equal or            *)
(* prefix-related paths                                                    *)
TupleCollides(configs, n) ==
    \E k, l \in 1..Len(configs) :
        /\ k # l
        /\ \E p \in ItemPaths(configs[k][n]), q \in ItemPaths(configs[l][n]) :
              Comparable(p, q)

LengthMismatchError == [exc |-> "ValueError", val |-> "zip"]

ZipOfEqualLengths ==
    (EqualLengths(arg.configs) /\ PairwiseDisjoint(arg.configs))
    => /\ ret.exc = "none"
       /\ \A k \in 1..Len(arg.configs) : Len(ret.val) = Len(arg.configs[k])
       /\ arg.configs = <<>> => ret.val = <<>>
       /\ \A n \in 1..Len(ret.val) :
             PyEq(ret.val[n],
                  merge_nested_dicts(
                      [k \in 1..Len(arg.configs) |-> arg.configs[k][n]], FALSE).val)

(* The statement of C12 read for every input: lists of different lengths   *)
(* always give the error of the zip.                                       *)
C12_ZipAlwaysLengthMismatch ==
    (pc = "done" /\ arg.fn = "config_zip")
    => /\ ~EqualLengths(arg.configs) => ret = LengthMismatchError
       /\ ZipOfEqualLengths

(* C12: config_zip raises ValueError and returns nothing whenever its      *)
(* inputs do not all have the same length; the error is the one of the     *)
(* strict zip unless the entries at a position that every input has        *)
(* collide, for the merge of that position raises the conflict error       *)
(* first.  For inputs of equal length n with disjoint paths the result is  *)
(* the list of length n whose i-th entry is the merge of the i-th entries. *)
C12_ZipStrict ==
    (pc = "done" /\ arg.fn = "config_zip")
    => /\ ~EqualLengths(arg.configs) =>
             /\ ret.exc = "ValueError"
             /\ (\A n \in 1..MinLen(arg.configs) : ~TupleCollides(arg.configs, n))
                   => ret = LengthMismatchError
       /\ ZipOfEqualLengths

(* two inputs of lengths 2 and 1 at disjoint paths: the strict zip raised  *)
(* after the merge of the first pair                                       *)
C12_Witness ==
    /\ pc = "done" /\ arg.fn = "config_zip"
    /\ Len(arg.configs) = 2 /\ PairwiseDisjoint(arg.configs)
    /\ Len(arg.configs[1]) = 2 /\ Len(arg.configs[2]) = 1
    /\ ret = LengthMismatchError

(* the number of entries of the inputs before input k *)
Offset(configs, k) == TotalLen(SubSeq(configs, 1, k - 1))

(* C13: config_chain returns the concatenation of its input lists in the   *)
(* order of the arguments, each input in its own order: the length is the  *)
(* sum of the lengths, equal paths in different inputs never conflict, and *)
(* the result is the empty list when every input is empty.                 *)
C13_ChainConcatenates ==
    (pc = "done" /\ arg.fn = "config_chain")
    => /\ ret.exc = "none"
       /\ Len(ret.val) = TotalLen(arg.configs)
       /\ \A k \in 1..Len(arg.configs) : \A i \in 1..Len(arg.configs[k]) :
             ret.val[Offset(arg.configs, k) + i] = arg.configs[k][i]

(* the inputs that have at least r entries *)
InRound(configs, r) == {j \in 1..Len(configs) : Len(configs[j]) >= r}

RECURSIVE EntriesBeforeRound(_, _)
EntriesBeforeRound(configs, r) ==
    IF r <= 1 THEN 0
    ELSE Cardinality(InRound(configs, r - 1)) + EntriesBeforeRound(configs, r - 1)

(* where the r-th entry of input k stands in the round robin *)
RoundPos(configs, k, r) ==
    EntriesBeforeRound(configs, r)
    + Cardinality({j \in InRound(configs, r) : j <= k})

(* C14: config_roundrobin takes one entry at a time from each input that   *)
(* is not exhausted, in the order of the arguments, until all inputs are   *)
(* exhausted: the result has the entries of config_chain of the inputs,    *)
(* and the r-th entries of the inputs that have r entries stand together   *)
(* in round r in the order of the arguments, after the rounds before.      *)
C14_RoundrobinInterleaves ==
    (pc = "done" /\ arg.fn = "config_roundrobin")
    => /\ ret.exc = "none"
       /\ Len(ret.val) = TotalLen(arg.configs)
       /\ \A k \in 1..Len(arg.configs) : \A r \in 1..Len(arg.configs[k]) :
             ret.val[RoundPos(arg.configs, k, r)] = arg.configs[k][r]

(* some element of some input is not a mapping *)
AnyNonMapping(configs) ==
    \E k \in 1..Len(configs) : \E i \in 1..Len(configs[k]) : ~IsDict(configs[k][i])

(* C15: config_combine with a chainer raises the error for an invalid      *)
(* chain result (ValueError) whenever an element of the chained sequence,  *)
(* at any position, is not a mapping, and returns the sequence only when   *)
(* every element is a mapping.                                             *)
C15_ChainResultChecked ==
    (pc = "done" /\ arg.fn = "config_combine"
        /\ arg.combiner = "None" /\ arg.chainer # "None")
    => /\ AnyNonMapping(arg.configs) => ret.exc = "ValueError"
       /\ ret.exc = "none" => ~AnyNonMapping(arg.configs)

----------------------------------------------------------------------------
(* Claims about as_hashable (SpecHashable) *)

(* the two items are instances of different classes with the same field    *)
(* names and values                                                        *)
SameFieldsOtherClass ==
    /\ IsRef(arg.items[1]) /\ IsRef(arg.items[2])
    /\ heap[arg.items[1][2]].cls # heap[arg.items[2][2]].cls
    /\ heap[arg.items[1][2]].attrs = heap[arg.items[2][2]].attrs

(* the second item is the mapping of the fields of the first *)
MappingOfFields ==
    /\ IsRef(arg.items[1])
    /\ arg.items[2] = Dict(heap[arg.items[1][2]].attrs)

(* C16: as_hashable of two instances of different classes with the same    *)
(* field names and values gives unequal projections, for every pair of     *)
(* distinct classes, two classes of the same name and qualified name       *)
(* included; and the projection of an instance is never the projection of  *)
(* the mapping of its fields.                                              *)
C16_ClassTagged ==
    (pc = "done" /\ arg.fn = "as_hashable")
    => /\ SameFieldsOtherClass => ret.val[1] # ret.val[2]
       /\ MappingOfFields => ret.val[1] # ret.val[2]

(* C17: as_hashable of a mapping does not depend on the insertion order of *)
(* the keys at any depth: two mappings that are equal as dictionaries have *)
(* equal projections, two mappings that differ in a key or a leaf value    *)
(* have unequal projections; and the projection of the list of an element  *)
(* sequence is unequal to the projection of the tuple of the sequence.     *)
C17_MappingOrderFree ==
    (pc = "done" /\ arg.fn = "as_hashable")
    => /\ (IsDict(arg.items[1]) /\ IsDict(arg.items[2]))
             => (PyEq(arg.items[1], arg.items[2]) <=> ret.val[1] = ret.val[2])
       /\ \A es \in HashSeqs :
             (arg.items[1] = List(es) /\ arg.items[2] = Tuple(es))
                => ret.val[1] # ret.val[2]

----------------------------------------------------------------------------
(* Claims about nested_dict_get and nested_dict_replace (SpecDict) *)

Resolves(config, path) == ValueAt(config, path) # Absent

(* C18: nested_dict_get raises KeyError whenever the path cannot be        *)
(* resolved in the config, when a segment is missing from the mapping      *)
(* reached so far and when the path continues below a leaf value alike;    *)
(* with the empty path it returns the config itself, and on success it     *)
(* returns the very value stored at the path, not a copy.                  *)
C18_GetKeyError ==
    (pc = "done" /\ arg.fn = "nested_dict_get")
    => /\ ~Resolves(arg.config, arg.path) => ret.exc = "KeyError"
       /\ (Resolves(arg.config, arg.path) /\ arg.leaf = "None") => ret.exc = "none"
       /\ ret.exc = "none" => ret.val = AttrAt(arg.d, arg.path, heap)
       /\ (arg.path = <<>> /\ ret.exc = "none") => ret.val = arg.d

(* some segment before the last one of the path is a leaf of the config *)
IntermediateLeaf(config, path) ==
    \E k \in 1..(Len(path) - 1) :
        /\ Resolves(config, SubSeq(path, 1, k))
        /\ ~IsDict(ValueAt(config, SubSeq(path, 1, k)))

ParentOf(config, path) == ValueAt(config, SubSeq(path, 1, Len(path) - 1))

(* C19: nested_dict_replace with inplace=False never changes its input     *)
(* config at any depth, whether it returns or raises.  When it returns,    *)
(* the result is another object that holds the value at the path and the   *)
(* leaves of the input at every other path.  It raises KeyError when the   *)
(* final key does not exist in its parent, ValueError when a segment       *)
(* before the last is not a mapping, and ValueError for the empty path.    *)
C19_ReplaceOutOfPlace ==
    (pc = "done" /\ arg.fn = "nested_dict_replace" /\ ~arg.inplace)
    => /\ ConfigOf(arg.d, heap) = arg.config
       /\ ret.exc = "none" =>
             /\ ret.val # arg.d
             /\ ConfigOf(AttrAt(ret.val, arg.path, heap), heap) = arg.value
             /\ {l \in Leaves(ConfigOf(ret.val, heap)) : ~Comparable(l[1], arg.path)}
                   = {l \in Leaves(arg.config) : ~Comparable(l[1], arg.path)}
             /\ \A l \in Leaves(ConfigOf(ret.val, heap)) :
                   Comparable(l[1], arg.path) => l = <<arg.path, arg.value>>
       /\ arg.path = <<>> => ret.exc = "ValueError"
       /\ IntermediateLeaf(arg.config, arg.path) => ret.exc = "ValueError"
       /\ (arg.path # <<>> /\ IsDict(ParentOf(arg.config, arg.path)))
             => IF DictHas(ParentOf(arg.config, arg.path), arg.path[Len(arg.path)])
                THEN ret.exc = "none" ELSE ret.exc = "KeyError"

(* a value replaced two levels down, out of place *)
C19_Witness ==
    /\ pc = "done" /\ arg.fn = "nested_dict_replace" /\ ~arg.inplace
    /\ Len(arg.path) = 2 /\ ret.exc = "none"
    /\ ValueAt(arg.config, arg.path) # arg.value
    /\ ConfigOf(ret.val, heap) # arg.config

----------------------------------------------------------------------------
(* Claims about merge_nested_dicts (SpecMerge) *)

(* the (path, value) pairs of the arguments, in argument order *)
MergePairs == ChainItems(arg.dicts)

(* the pair at position j is not replaced: no pair applied after it has an *)
(* equal path, a strict prefix of its path or a strict extension of it     *)
Survives(items, j) ==
    \A k \in (j + 1)..Len(items) : ~Comparable(items[k][1], items[j][1])

(* C24: merge_nested_dicts with overwrite=True never raises, and the       *)
(* leaves of its result are exactly the (path, value) pairs of its         *)
(* arguments, taken in argument order, for which no later pair has a path  *)
(* equal to theirs, a strict prefix of it or a strict extension of it.     *)
C24_OverwriteLaterWins ==
    (pc = "done" /\ arg.fn = "merge_nested_dicts" /\ arg.overwrite)
    => /\ ret.exc = "none"
       /\ Leaves(ret.val)
             = {MergePairs[j] : j \in {i \in 1..Len(MergePairs) : Survives(MergePairs, i)}}

(* a later leaf at a.b has replaced an earlier leaf at a, and a third      *)
(* config has then added a sibling under a                                 *)
C24_Witness ==
    /\ pc = "done" /\ arg.fn = "merge_nested_dicts" /\ arg.overwrite
    /\ Len(arg.dicts) = 3
    /\ ValueAt(arg.dicts[1], <<"a">>) = PyInt(1)
    /\ ValueAt(arg.dicts[2], <<"a", "b">>) = PyInt(2)
    /\ Leaves(ret.val) = {<< <<"a", "b">>, PyInt(2)>>, << <<"a", "a">>, PyInt(1)>>}

(* dict equality of Python: the same keys with equal values, in whatever   *)
(* order the keys were inserted                                            *)
RECURSIVE SameDict(_, _)
SameDict(x, y) ==
    IF IsDict(x) /\ IsDict(y)
    THEN /\ {x[2][i][1] : i \in 1..Len(x[2])} = {y[2][i][1] : i \in 1..Len(y[2])}
         /\ \A i \in 1..Len(x[2]) : SameDict(x[2][i][2], DictGet(y, x[2][i][1]))
    ELSE x = y

(* two outcomes of merge_nested_dicts agree: both raise the conflict       *)
(* error, or both return and the results are equal dicts                   *)
SameOutcome(r1, r2) ==
    /\ r1.exc = r2.exc
    /\ r1.exc \in {"none", "ValueError"}
    /\ r1.exc = "none" => SameDict(r1.val, r2.val)

(* merge_nested_dicts(merge_nested_dicts(a, b), c) *)
MergeNested(a, b, c) ==
    LET ab == merge_nested_dicts(<<a, b>>, FALSE)
    IN  IF ab.exc # "none" THEN ab ELSE merge_nested_dicts(<<ab.val, c>>, FALSE)

(* C30: without overwrite, merge_nested_dicts(a, b) raises the conflict    *)
(* error exactly when merge_nested_dicts(b, a) does, and otherwise the     *)
(* two results are equal as dicts; and merge_nested_dicts(a, b, c) raises  *)
(* or returns as merge_nested_dicts(merge_nested_dicts(a, b), c) does,     *)
(* with an equal result.                                                   *)
C30_MergeOrderFree ==
    (pc = "done" /\ arg.fn = "merge_nested_dicts" /\ ~arg.overwrite)
    => /\ Len(arg.dicts) = 2
          => SameOutcome(ret, merge_nested_dicts(<<arg.dicts[2], arg.dicts[1]>>, FALSE))
       /\ Len(arg.dicts) = 3
          => SameOutcome(ret, MergeNested(arg.dicts[1], arg.dicts[2], arg.dicts[3]))

(* two configs that share the mapping at a were merged, and the keys of    *)
(* the result are in another order than in the merge the other way round   *)
C30_Witness ==
    /\ pc = "done" /\ arg.fn = "merge_nested_dicts" /\ ~arg.overwrite
    /\ Len(arg.dicts) = 2 /\ ret.exc = "none"
    /\ IsDict(ValueAt(arg.dicts[1], <<"a">>)) /\ IsDict(ValueAt(arg.dicts[2], <<"a">>))
    /\ ret.val # merge_nested_dicts(<<arg.dicts[2], arg.dicts[1]>>, FALSE).val

----------------------------------------------------------------------------
(* Claims about the objects the combinators return (SpecAlias) *)

(* C26: the configs a combinator returns share no dict with its input      *)
(* configs or with each other: a replacement in place in one returned      *)
(* config changes no input config and no other returned config.            *)
C26_CombinatorsShareNothing ==
    [][(pc = "done" /\ pc' = "modified")
       => /\ \A k \in 1..Len(arg.objects) : \A n \in 1..Len(arg.objects[k]) :
                ConfigOf(arg.objects[k][n], heap') = arg.configs[k][n]
          /\ \A i, j \in 1..Len(ret.val) :
                i # j => ~(/\ ConfigOf(ret.val[i], heap') # ConfigOf(ret.val[i], heap)
                           /\ ConfigOf(ret.val[j], heap') # ConfigOf(ret.val[j], heap))]_vars

----------------------------------------------------------------------------
(* Claims about the arguments of initialize (SpecArgs) *)

(* C27: initialize never changes its arguments: during and after the       *)
(* call, whether it returns or raises, every input config and the          *)
(* mappings constant and default, flattened, nested or mixed, are equal    *)
(* at every depth to what they were before the call.                       *)
C27_ArgumentsUnchanged ==
    "objects" \in DOMAIN arg
    => /\ ConfigOf(arg.objects.constant, heap) = arg.constant
       /\ ConfigOf(arg.objects.default, heap) = arg.default
       /\ \A i \in 1..Len(arg.configs) :
             ConfigOf(arg.objects.configs[i], heap) = arg.configs[i]

----------------------------------------------------------------------------
(* Claims about the hash of a projection (SpecProject) *)

(* C28: whenever as_hashable returns without raising, on hashable values,  *)
(* instances, mappings, sets and lists nested in any combination, the      *)
(* projection is hashable, so that hash() of it in check_unique does not   *)
(* raise TypeError; in particular for a list of lists, sets or mappings.   *)
C28_ProjectionHashable ==
    /\ pc = "projected" => is_hashable(ret.val)
    /\ (pc = "done" /\ ~as_hashable_raises(arg.model, heap, classes))
          => ret.exc = "none"

----------------------------------------------------------------------------
(* Claims about the injectivity of as_hashable (SpecHashable) *)

(* two values of the same kind that are equal; HashHeap holds no two equal *)
(* instances, so that instances are equal when they are the same object    *)
SameKindEqual(a, b) ==
    a[1] = b[1] /\ (IF IsDict(a) THEN PyEq(a, b) ELSE a = b)

(* the first item is a set or a frozenset holding the pair (k, v) and the  *)
(* second the mapping of k to v                                            *)
PairSetAndMapping ==
    /\ arg.items[1][1] \in {"set", "frozenset"}
    /\ IsDict(arg.items[2]) /\ Len(arg.items[2][2]) = 1
    /\ <<arg.items[2][2][1][1], arg.items[2][2][1][2]>> \in arg.items[1][2]

(* C29: as_hashable is injective across the kinds of values: two values    *)
(* have equal projections only if they are of the same kind and equal; the *)
(* projection of a mapping of k to v is never the projection of a set or   *)
(* frozenset holding the pair (k, v), and the projection of a list is      *)
(* never the projection of a tuple.                                        *)
C29_InjectiveAcrossKinds ==
    (pc = "done" /\ arg.fn = "as_hashable")
    => /\ ret.val[1] = ret.val[2] => SameKindEqual(arg.items[1], arg.items[2])
       /\ PairSetAndMapping => ret.val[1] # ret.val[2]
       /\ (arg.items[1][1] = "tuple" /\ IsList(arg.items[2]))
             => ret.val[1] # ret.val[2]

=============================================================================
